---- MODULE Spec2Model ----
(***************************************************************************)
(* A model of the local recommendation pipeline of src/main.py             *)
(* (IntelligentRecommender): feature extraction, query planning,           *)
(* multi-query retrieval with score-max merge, and multi-signal ranking.   *)
(*                                                                         *)
(* Text is a sequence of one-character strings, so that the regular        *)
(* expressions of the source are modelled by what they match.  Real        *)
(* numbers are fixed-point integers: a similarity s stands for s/100.      *)
(***************************************************************************)
EXTENDS Integers, Sequences, FiniteSets, TLC

(***************************************************************************)
(* Characters and the classes the regular expressions use.                 *)
(***************************************************************************)
UpperChars == <<"A","B","C","D","E","F","G","H","I","J","K","L","M",
                "N","O","P","Q","R","S","T","U","V","W","X","Y","Z">>

LowerChars == <<"a","b","c","d","e","f","g","h","i","j","k","l","m",
                "n","o","p","q","r","s","t","u","v","w","x","y","z">>

DigitChars == <<"0","1","2","3","4","5","6","7","8","9">>

\* the sequence f as a tuple of values, each element computed once
Listed(f) == f \o << >>

Range(f) == {f[i] : i \in DOMAIN f}

UpperSet == Range(UpperChars)

LowerSet == Range(LowerChars)

DigitSet == Range(DigitChars)

\* \s of the re module, restricted to the characters the inputs use
SpaceSet == {" ", "\t", "\n"}

\* \w of the re module
WordSet == UpperSet \cup LowerSet \cup DigitSet \cup {"_"}

LowerMap == [c \in UpperSet |-> LowerChars[CHOOSE i \in 1..26 : UpperChars[i] = c]]

DigitMap == [c \in DigitSet |-> (CHOOSE i \in 1..10 : DigitChars[i] = c) - 1]

LowerChar(c) == IF c \in UpperSet THEN LowerMap[c] ELSE c

\* str.lower()
Lower(s) == Listed([i \in 1..Len(s) |-> LowerChar(s[i])])

\* the pattern word w (lower case) matches the lower-cased text at position i
MatchAt(low, i, w) ==
    /\ i >= 1
    /\ i + Len(w) - 1 <= Len(low)
    /\ \A j \in 1..Len(w) : low[i + j - 1] = w[j]

\* Python's "w in s"
Contains(low, w) == \E i \in 1..(Len(low) - Len(w) + 1) : MatchAt(low, i, w)

ContainsAny(low, words) == \E k \in 1..Len(words) : Contains(low, words[k])

IsWordAt(s, i) == i >= 1 /\ i <= Len(s) /\ s[i] \in WordSet

\* \b between positions i-1 and i
WordBoundary(s, i) == IsWordAt(s, i - 1) # IsWordAt(s, i)

\* position after the maximal run of characters of class cls starting at i
RECURSIVE RunEnd(_, _, _)
RunEnd(s, i, cls) ==
    IF i <= Len(s) /\ s[i] \in cls THEN RunEnd(s, i + 1, cls) ELSE i

\* str.strip()
RECURSIVE LStrip(_)
LStrip(s) == IF s # <<>> /\ Head(s) \in SpaceSet THEN LStrip(Tail(s)) ELSE s

RECURSIVE RStrip(_)
RStrip(s) ==
    IF s # <<>> /\ s[Len(s)] \in SpaceSet THEN RStrip(SubSeq(s, 1, Len(s) - 1)) ELSE s

Strip(s) == RStrip(LStrip(s))

\* int() of a run of decimal digits
RECURSIVE ParseInt(_)
ParseInt(ds) ==
    IF ds = <<>> THEN 0
    ELSE 10 * ParseInt(SubSeq(ds, 1, Len(ds) - 1)) + DigitMap[ds[Len(ds)]]

(***************************************************************************)
(* The keyword tables of the recommender.                                  *)
(***************************************************************************)
SoftKeywords ==
    << <<"c","o","l","l","a","b","o","r","a","t">>, <<"t","e","a","m">>,
       <<"t","e","a","m","w","o","r","k">>, <<"l","e","a","d">>,
       <<"m","a","n","a","g">>, <<"s","u","p","e","r","v","i","s","o","r">>,
       <<"p","e","r","s","o","n","a","l","i","t","y">>,
       <<"b","e","h","a","v","i","o","u","r">>,
       <<"c","o","m","m","u","n","i","c","a","t","i","o","n">>, <<"o","p","q">> >>

EntryKeywords ==
    << <<"e","n","t","r","y">>, <<"j","u","n","i","o","r">>,
       <<"g","r","a","d","u","a","t","e">>, <<"i","n","t","e","r","n">> >>

SeniorKeywords ==
    << <<"s","e","n","i","o","r">>, <<"l","e","a","d">>,
       <<"e","x","p","e","r","t">>, <<"p","r","i","n","c","i","p","a","l">> >>

LevelKeywords == EntryKeywords \o SeniorKeywords

DurationKeywords ==
    << <<"m","i","n","u","t","e">>, <<"m","i","n">>, <<"m","i","n","s">>,
       <<"l","e","s","s">>, <<"m","a","x","i","m","u","m">>, <<"m","a","x">>,
       <<"u","n","d","e","r">>, <<"w","i","t","h","i","n">>,
       <<"d","u","r","a","t","i","o","n">>, <<"t","i","m","e">> >>

\* the alternation (less|maximum|max|under|within) of both duration patterns
LimitWords ==
    << <<"l","e","s","s">>, <<"m","a","x","i","m","u","m">>, <<"m","a","x">>,
       <<"u","n","d","e","r">>, <<"w","i","t","h","i","n">> >>

\* the alternation (?:minute|min|minutes|mins) of both duration patterns
UnitWords ==
    << <<"m","i","n","u","t","e">>, <<"m","i","n">>,
       <<"m","i","n","u","t","e","s">>, <<"m","i","n","s">> >>

NonSkillWords ==
    << <<"l","o","o","k","i","n","g">>, <<"t","o">>, <<"h","i","r","e">>,
       <<"w","h","o">>, <<"a","r","e">>,
       <<"p","r","o","f","i","c","i","e","n","t">>, <<"i","n">>,
       <<"n","e","e","d">>, <<"a","n">>,
       <<"a","s","s","e","s","s","m","e","n","t">>,
       <<"p","a","c","k","a","g","e">>, <<"t","h","a","t">>, <<"c","a","n">>,
       <<"t","e","s","t">>, <<"a","l","l">>, <<"s","k","i","l","l","s">>,
       <<"w","i","t","h">>, <<"f","o","r">>, <<"a">> >>

AndWord == <<"a","n","d">>

(***************************************************************************)
(* Optional values: Python's None is the empty tuple, a value v is <<v>>.   *)
(***************************************************************************)
None == << >>

Some(v) == <<v>>

Min(S) == CHOOSE x \in S : \A y \in S : x <= y

(***************************************************************************)
(* re.sub(r'\b(w1|w2|...)\b', '', s, flags=re.IGNORECASE): from position i *)
(* find the leftmost place where a word of the alternation stands between  *)
(* two word boundaries, keep the text before it, drop the word (the first  *)
(* alternative that matches) and go on after it.                           *)
(***************************************************************************)
WordHits(low, i, words) ==
    IF WordBoundary(low, i)
    THEN {k \in 1..Len(words) :
            MatchAt(low, i, words[k]) /\ WordBoundary(low, i + Len(words[k]))}
    ELSE {}

\* for every position, the length of the word matched there, or 0
HitLengths(low, words) ==
    Listed([j \in 1..Len(low) |->
              LET hits == WordHits(low, j, words)
              IN IF hits = {} THEN 0 ELSE Len(words[Min(hits)])])

RECURSIVE RemoveWordsFrom(_, _, _)
RemoveWordsFrom(s, hit, i) ==
    LET starts == {j \in i..Len(s) : hit[j] # 0}
    IN IF starts = {} THEN SubSeq(s, i, Len(s))
       ELSE LET j == Min(starts)
            IN SubSeq(s, i, j - 1) \o RemoveWordsFrom(s, hit, j + hit[j])

RemoveWords(s, words) == RemoveWordsFrom(s, HitLengths(Lower(s), words), 1)

\* re.sub(r'\s+', ' ', s): every maximal run of spaces becomes one " "
CollapseSpaces(s) ==
    LET RunStartOrText(i) == s[i] \notin SpaceSet \/ i = 1 \/ s[i - 1] \notin SpaceSet
        kept == SelectSeq([i \in 1..Len(s) |-> i], RunStartOrText)
    IN Listed([n \in 1..Len(kept) |-> IF s[kept[n]] \in SpaceSet THEN " " ELSE s[kept[n]]])

(***************************************************************************)
(* re.split(r',\s*|\s+and\s+', s, flags=re.IGNORECASE).                     *)
(* SepEnd is the position after the separator that starts at i, or 0 when  *)
(* no separator starts there.  \s* and \s+ are greedy; giving characters   *)
(* back never helps, as the next pattern character is not a space.         *)
(***************************************************************************)
\* a planner that splits on commas only
CommaEnd(low, i) == IF low[i] = "," THEN RunEnd(low, i + 1, SpaceSet) ELSE 0

SepEnd(low, i) ==
    IF low[i] = "," THEN RunEnd(low, i + 1, SpaceSet)
    ELSE IF low[i] \in SpaceSet
         THEN LET j == RunEnd(low, i, SpaceSet)
              IN IF /\ MatchAt(low, j, AndWord)
                    /\ j + 3 <= Len(low)
                    /\ low[j + 3] \in SpaceSet
                 THEN RunEnd(low, j + 3, SpaceSet)
                 ELSE 0
         ELSE 0

\* the pieces of s from position start on
RECURSIVE SplitFrom(_, _, _)
SplitFrom(s, low, start) ==
    LET seps == {i \in start..Len(s) : SepEnd(low, i) # 0}
    IN IF seps = {} THEN << SubSeq(s, start, Len(s)) >>
       ELSE << SubSeq(s, start, Min(seps) - 1) >> \o SplitFrom(s, low, SepEnd(low, Min(seps)))

ReSplit(s) == SplitFrom(s, Lower(s), 1)

NonEmptyText(q) == q # <<>>

\* [q.strip() for q in queries if q.strip()]
StripAndDrop(pieces) ==
    SelectSeq([i \in 1..Len(pieces) |-> Strip(pieces[i])], NonEmptyText)

\* a planner that returns the empty list when no piece is left
NoFallback(cleaned) == << >>

\* the fallback of _parse_tech_queries when no piece is left
PlannerFallback(cleaned) == << cleaned >>

_parse_tech_queries(cleaned) ==
    LET queries == StripAndDrop(ReSplit(cleaned))
    IN IF queries = <<>> THEN PlannerFallback(cleaned) ELSE queries

(***************************************************************************)
(* The two duration patterns, on the lower-cased query.                    *)
(*   (a) (\d+)\s*(?:minute|min|minutes|mins).*?(less|maximum|max|...)       *)
(*   (b) (?:less|maximum|max|under|within).*?(\d+)\s*(?:minute|min|...)     *)
(* "." does not match a newline.                                           *)
(***************************************************************************)
\* ends (exclusive) of the matches of (\d+)\s*(?:unit) that start at q
NumberUnitEnds(low, q) ==
    IF q <= Len(low) /\ low[q] \in DigitSet
    THEN LET t == RunEnd(low, RunEnd(low, q, DigitSet), SpaceSet)
         IN {t + Len(UnitWords[u]) : u \in {k \in 1..Len(UnitWords) : MatchAt(low, t, UnitWords[k])}}
    ELSE {}

NumberAt(low, q) == ParseInt(SubSeq(low, q, RunEnd(low, q, DigitSet) - 1))

NoNewline(low, from, to) == \A j \in from..(to - 1) : low[j] # "\n"

LimitWordAt(low, p) == \E k \in 1..Len(LimitWords) : MatchAt(low, p, LimitWords[k])

\* pattern (a) matches with its start at i
PatternAAt(low, i) ==
    \E e \in NumberUnitEnds(low, i) :
        \E p \in e..Len(low) : NoNewline(low, e, p) /\ LimitWordAt(low, p)

\* duration_matches[0][0], or None when findall returns the empty list
DurationMatchesFirst(low) ==
    LET starts == {i \in 1..Len(low) : PatternAAt(low, i)}
    IN IF starts = {} THEN None ELSE Some(NumberAt(low, Min(starts)))

\* the positions q where the lazy .*? of pattern (b) may stop after a limit
\* word that ends (exclusive) at e
NumberStarts(low, e) ==
    {q \in e..Len(low) : NoNewline(low, e, q) /\ NumberUnitEnds(low, q) # {}}

LimitEnds(low, i) ==
    {i + Len(LimitWords[k]) : k \in {n \in 1..Len(LimitWords) : MatchAt(low, i, LimitWords[n])}}

PatternBAt(low, i) == \E e \in LimitEnds(low, i) : NumberStarts(low, e) # {}

\* the first alternative (in pattern order) that leads to a match
FirstLimitEnd(low, i) ==
    LET k == Min({n \in 1..Len(LimitWords) :
                    /\ MatchAt(low, i, LimitWords[n])
                    /\ NumberStarts(low, i + Len(LimitWords[n])) # {}})
    IN i + Len(LimitWords[k])

\* duration_less_than[0], or None when findall returns the empty list
\* an extractor without the second duration pattern
NoSecondPattern(low) == None

DurationLessThanFirst(low) ==
    LET starts == {i \in 1..Len(low) : PatternBAt(low, i)}
    IN IF starts = {} THEN None
       ELSE Some(NumberAt(low, Min(NumberStarts(low, FirstLimitEnd(low, Min(starts))))))

\* an extractor that asks the second pattern first
SecondPatternFirst(low) ==
    IF DurationLessThanFirst(low) # None THEN DurationLessThanFirst(low)
    ELSE DurationMatchesFirst(low)

MaxDurationOf(low) ==
    IF DurationMatchesFirst(low) # None THEN DurationMatchesFirst(low)
    ELSE DurationLessThanFirst(low)

SoftSkillRequested(low) == ContainsAny(low, SoftKeywords)

\* an extractor in which a senior keyword beats an entry keyword
SeniorBeatsEntry(low) ==
    IF ContainsAny(low, SeniorKeywords) THEN "senior"
    ELSE IF ContainsAny(low, EntryKeywords) THEN "entry"
    ELSE "mid"

RoleLevelOf(low) ==
    IF ContainsAny(low, LevelKeywords)
    THEN IF ContainsAny(low, EntryKeywords) THEN "entry"
         ELSE IF ContainsAny(low, SeniorKeywords) THEN "senior"
         ELSE "mid"
    ELSE "mid"

\* a cleaning that removes the words and leaves the whitespace as it is
RemovedOnly(query) ==
    RemoveWords(RemoveWords(query, SoftKeywords \o LevelKeywords \o DurationKeywords),
                NonSkillWords)

\* the noise removal, the stop-word removal, the whitespace collapse and strip
CleanText(query) ==
    Strip(CollapseSpaces(
        RemoveWords(RemoveWords(query, SoftKeywords \o LevelKeywords \o DurationKeywords),
                    NonSkillWords)))

CleanedTechQuery(query) ==
    IF CleanText(query) = <<>> THEN query ELSE CleanText(query)

_extract_features_locally(query) ==
    [features |-> [soft_skill_requested |-> SoftSkillRequested(Lower(query)),
                   role_level |-> RoleLevelOf(Lower(query)),
                   max_duration |-> MaxDurationOf(Lower(query))],
     cleaned_tech_query |-> CleanedTechQuery(query)]

(***************************************************************************)
(* The catalog file: assessment records as the scraper writes them (name,  *)
(* url, description, test_type, duration, adaptive_support,                *)
(* remote_support).  A duration the catalog does not know is None.         *)
(***************************************************************************)
CatalogFile ==
    <<
       \* Java 8 (New) / Java 8 coding
       [name |-> <<"J","a","v","a"," ","8"," ","(","N","e","w",")">>,
        url |-> "https://www.shl.com/solutions/products/product-catalog/view/java-8-new/",
        description |-> <<"J","a","v","a"," ","8"," ","c","o","d","i","n","g">>,
        test_type |-> <<"Knowledge & Skills">>,
        duration |-> Some(18),
        adaptive_support |-> "No",
        remote_support |-> "Yes"],
       \* Core Java (Advanced Level) / advanced Java
       [name |-> <<"C","o","r","e"," ","J","a","v","a"," ","(","A","d","v","a","n","c","e","d"," ","L","e","v","e","l",")">>,
        url |-> "https://www.shl.com/solutions/products/product-catalog/view/core-java-advanced-level-new/",
        description |-> <<"a","d","v","a","n","c","e","d"," ","J","a","v","a">>,
        test_type |-> <<"Knowledge & Skills">>,
        duration |-> Some(35),
        adaptive_support |-> "No",
        remote_support |-> "Yes"],
       \* Core Java (Entry Level) / basic Java
       [name |-> <<"C","o","r","e"," ","J","a","v","a"," ","(","E","n","t","r","y"," ","L","e","v","e","l",")">>,
        url |-> "https://www.shl.com/solutions/products/product-catalog/view/core-java-entry-level/",
        description |-> <<"b","a","s","i","c"," ","J","a","v","a">>,
        test_type |-> <<"Knowledge & Skills">>,
        duration |-> Some(30),
        adaptive_support |-> "No",
        remote_support |-> "Yes"],
       \* OPQ32r / work style
       [name |-> <<"O","P","Q","3","2","r">>,
        url |-> "https://www.shl.com/solutions/products/product-catalog/view/occupational-personality-questionnaire-opq/",
        description |-> <<"w","o","r","k"," ","s","t","y","l","e">>,
        test_type |-> <<"Personality & Behaviour">>,
        duration |-> Some(25),
        adaptive_support |-> "No",
        remote_support |-> "Yes"],
       \* Python (New) / Python coding
       [name |-> <<"P","y","t","h","o","n"," ","(","N","e","w",")">>,
        url |-> "https://www.shl.com/solutions/products/product-catalog/view/python-new/",
        description |-> <<"P","y","t","h","o","n"," ","c","o","d","i","n","g">>,
        test_type |-> <<"Knowledge & Skills">>,
        duration |-> Some(11),
        adaptive_support |-> "No",
        remote_support |-> "Yes"],
       \* SQL Server (New) / SQL queries
       [name |-> <<"S","Q","L"," ","S","e","r","v","e","r"," ","(","N","e","w",")">>,
        url |-> "https://www.shl.com/solutions/products/product-catalog/view/sql-server-new/",
        description |-> <<"S","Q","L"," ","q","u","e","r","i","e","s">>,
        test_type |-> <<"Knowledge & Skills">>,
        duration |-> Some(60),
        adaptive_support |-> "No",
        remote_support |-> "Yes"],
       \* JavaScript (New) / web scripting
       [name |-> <<"J","a","v","a","S","c","r","i","p","t"," ","(","N","e","w",")">>,
        url |-> "https://www.shl.com/solutions/products/product-catalog/view/javascript-new/",
        description |-> <<"w","e","b"," ","s","c","r","i","p","t","i","n","g">>,
        test_type |-> <<"Knowledge & Skills">>,
        duration |-> Some(61),
        adaptive_support |-> "No",
        remote_support |-> "Yes"],
       \* Teamwork Skills / working together
       [name |-> <<"T","e","a","m","w","o","r","k"," ","S","k","i","l","l","s">>,
        url |-> "https://www.shl.com/solutions/products/product-catalog/view/teamwork-skills/",
        description |-> <<"w","o","r","k","i","n","g"," ","t","o","g","e","t","h","e","r">>,
        test_type |-> <<"Competencies">>,
        duration |-> Some(20),
        adaptive_support |-> "No",
        remote_support |-> "Yes"],
       \* Senior Manager Judgement / scenarios
       [name |-> <<"S","e","n","i","o","r"," ","M","a","n","a","g","e","r"," ","J","u","d","g","e","m","e","n","t">>,
        url |-> "https://www.shl.com/solutions/products/product-catalog/view/senior-manager-judgement/",
        description |-> <<"s","c","e","n","a","r","i","o","s">>,
        test_type |-> <<"Biodata & Situational Judgement">>,
        duration |-> Some(90),
        adaptive_support |-> "No",
        remote_support |-> "Yes"],
       \* Verify Numerical / number reasoning
       [name |-> <<"V","e","r","i","f","y"," ","N","u","m","e","r","i","c","a","l">>,
        url |-> "https://www.shl.com/solutions/products/product-catalog/view/verify-numerical/",
        description |-> <<"n","u","m","b","e","r"," ","r","e","a","s","o","n","i","n","g">>,
        test_type |-> <<"Ability & Aptitude">>,
        duration |-> Some(31),
        adaptive_support |-> "No",
        remote_support |-> "Yes"],
       \* Sales Report / communication style
       [name |-> <<"S","a","l","e","s"," ","R","e","p","o","r","t">>,
        url |-> "https://www.shl.com/solutions/products/product-catalog/view/sales-report/",
        description |-> <<"c","o","m","m","u","n","i","c","a","t","i","o","n"," ","s","t","y","l","e">>,
        test_type |-> <<"Development & 360">>,
        duration |-> Some(45),
        adaptive_support |-> "No",
        remote_support |-> "Yes"],
       \* Legacy Form / old form
       [name |-> <<"L","e","g","a","c","y"," ","F","o","r","m">>,
        url |-> "https://www.shl.com/solutions/products/product-catalog/view/legacy-form/",
        description |-> <<"o","l","d"," ","f","o","r","m">>,
        test_type |-> <<"Knowledge & Skills">>,
        duration |-> None,
        adaptive_support |-> "No",
        remote_support |-> "Yes"],
       \* Excel 365 (New) / spreadsheets
       [name |-> <<"E","x","c","e","l"," ","3","6","5"," ","(","N","e","w",")">>,
        url |-> "https://www.shl.com/solutions/products/product-catalog/view/microsoft-excel-365-new/",
        description |-> <<"s","p","r","e","a","d","s","h","e","e","t","s">>,
        test_type |-> <<"Knowledge & Skills">>,
        duration |-> Some(30),
        adaptive_support |-> "No",
        remote_support |-> "Yes"],
       \* Entry Level Cashier / till work
       [name |-> <<"E","n","t","r","y"," ","L","e","v","e","l"," ","C","a","s","h","i","e","r">>,
        url |-> "https://www.shl.com/solutions/products/product-catalog/view/entry-level-cashier/",
        description |-> <<"t","i","l","l"," ","w","o","r","k">>,
        test_type |-> <<"Simulations">>,
        duration |-> Some(15),
        adaptive_support |-> "No",
        remote_support |-> "Yes"]
    >>

(***************************************************************************)
(* Query texts.                                                            *)
(***************************************************************************)
\* 'Need a Java developer with good collaboration skills. Test duration should be less than 30 minutes'
TEST_QUERY_1 ==
    <<"N","e","e","d"," ","a"," ","J","a","v","a"," ","d","e","v","e","l","o",
      "p","e","r"," ","w","i","t","h"," ","g","o","o","d"," ","c","o","l","l",
      "a","b","o","r","a","t","i","o","n"," ","s","k","i","l","l","s","."," ",
      "T","e","s","t"," ","d","u","r","a","t","i","o","n"," ","s","h","o","u",
      "l","d"," ","b","e"," ","l","e","s","s"," ","t","h","a","n"," ","3","0",
      " ","m","i","n","u","t","e","s">>

\* 'Looking to hire who are proficient in Python, SQL, JavaScript. Need an assessment package that can test all skills with max duration of 60 minutes.'
TEST_QUERY_2 ==
    <<"L","o","o","k","i","n","g"," ","t","o"," ","h","i","r","e"," ","w","h",
      "o"," ","a","r","e"," ","p","r","o","f","i","c","i","e","n","t"," ","i",
      "n"," ","P","y","t","h","o","n",","," ","S","Q","L",","," ","J","a","v",
      "a","S","c","r","i","p","t","."," ","N","e","e","d"," ","a","n"," ","a",
      "s","s","e","s","s","m","e","n","t"," ","p","a","c","k","a","g","e"," ",
      "t","h","a","t"," ","c","a","n"," ","t","e","s","t"," ","a","l","l"," ",
      "s","k","i","l","l","s"," ","w","i","t","h"," ","m","a","x"," ","d","u",
      "r","a","t","i","o","n"," ","o","f"," ","6","0"," ","m","i","n","u","t",
      "e","s",".">>

\* 'Python and SQL'
QueryTwoSkills ==
    <<"P","y","t","h","o","n"," ","a","n","d"," ","S","Q","L">>

\* 'Entry level Java, 5 mins max'
QueryShortLimit ==
    <<"E","n","t","r","y"," ","l","e","v","e","l"," ","J","a","v","a",","," ",
      "5"," ","m","i","n","s"," ","m","a","x">>

\* ' '
QueryBlank ==
    <<" ">>

\* 'Senior Java developer'
QuerySenior ==
    <<"S","e","n","i","o","r"," ","J","a","v","a"," ","d","e","v","e","l","o",
      "p","e","r">>

\* 'Graduate Java developer'
QueryGraduate ==
    <<"G","r","a","d","u","a","t","e"," ","J","a","v","a"," ","d","e","v","e",
      "l","o","p","e","r">>

\* 'Python, SQL and JavaScript'
PlannerExample ==
    <<"P","y","t","h","o","n",","," ","S","Q","L"," ","a","n","d"," ","J","a",
      "v","a","S","c","r","i","p","t">>

\* 'Python  and\nSQL'
PageTwoSkills ==
    <<"P","y","t","h","o","n"," "," ","a","n","d","\n","S","Q","L">>


(***************************************************************************)
(* Bounds of the model.                                                    *)
(***************************************************************************)
\* the largest catalog loaded at startup (the catalog file's first records)
NumAssessments == 12

\* the number of stored embedding matrices the startup may load
NumMatrices == 1

(***************************************************************************)
(* The embedding model and cosine similarity.  An embedding is one of      *)
(* eight unit vectors of the plane, 45 degrees apart, named 0..7; the      *)
(* cosine of two of them, times 100, is read from CosTable by their        *)
(* angular distance.  The pretrained encoder is a fixed function of the    *)
(* text: here the sum of its character codes.                              *)
(***************************************************************************)
CosTable == <<100, 71, 0, -71, -100>>

NumDirections == 2 * (Len(CosTable) - 1)

Alphabet ==
    LowerChars \o UpperChars \o DigitChars
        \o <<" ", "\t", "\n", ",", ".", "(", ")", "_", "-", "&", ":">>

CharCode == [c \in Range(Alphabet) |-> CHOOSE i \in 1..Len(Alphabet) : Alphabet[i] = c]

RECURSIVE CodeSum(_, _, _)
CodeSum(text, lo, hi) ==
    IF lo > hi THEN 0
    ELSE IF lo = hi THEN CharCode[text[lo]]
    ELSE CodeSum(text, lo, (lo + hi) \div 2) + CodeSum(text, (lo + hi) \div 2 + 1, hi)

\* self.model.encode([text], convert_to_numpy=True)
Encode(text) == CodeSum(text, 1, Len(text)) % NumDirections

Cosine(a, b) ==
    LET d == (a - b) % NumDirections
    IN CosTable[(IF d > NumDirections \div 2 THEN NumDirections - d ELSE d) + 1]

\* the embedding matrix number m of the embeddings file, for n assessments
StoredMatrix(m, n) == [i \in 1..n |-> (i * m + i \div 3) % NumDirections]

(***************************************************************************)
(* _create_embeddings: the matrix derived from the catalog when the        *)
(* embeddings file is absent.  One text per assessment,                    *)
(*   "<name>. <description>. Test types: <types>. Duration: <d> minutes.   *)
(*    Adaptive: <flag>."                                                   *)
(* and one row per text.  The tags and flags of the catalog are spelled    *)
(* out for the encoder by the table below.                                 *)
(***************************************************************************)
Spellings ==
    <<
       [word |-> "Knowledge & Skills",
        text |-> <<"K","n","o","w","l","e","d","g","e"," ","&"," ","S","k","i","l","l","s">>],
       [word |-> "Personality & Behaviour",
        text |-> <<"P","e","r","s","o","n","a","l","i","t","y"," ","&"," ","B","e","h","a","v","i","o","u","r">>],
       [word |-> "Competencies",
        text |-> <<"C","o","m","p","e","t","e","n","c","i","e","s">>],
       [word |-> "Biodata & Situational Judgement",
        text |-> <<"B","i","o","d","a","t","a"," ","&"," ","S","i","t","u","a","t","i","o","n","a","l"," ","J","u","d","g","e","m","e","n","t">>],
       [word |-> "Ability & Aptitude",
        text |-> <<"A","b","i","l","i","t","y"," ","&"," ","A","p","t","i","t","u","d","e">>],
       [word |-> "Development & 360",
        text |-> <<"D","e","v","e","l","o","p","m","e","n","t"," ","&"," ","3","6","0">>],
       [word |-> "Simulations",
        text |-> <<"S","i","m","u","l","a","t","i","o","n","s">>],
       [word |-> "No",
        text |-> <<"N","o">>],
       [word |-> "Yes",
        text |-> <<"Y","e","s">>]
    >>

Spelled(word) == Spellings[CHOOSE i \in 1..Len(Spellings) : Spellings[i].word = word].text

\* str(n) of a natural number
RECURSIVE IntText(_)
IntText(n) ==
    IF n < 10 THEN << DigitChars[n + 1] >>
    ELSE IntText(n \div 10) \o << DigitChars[(n % 10) + 1] >>

\* str(assessment.get('duration', 30)): the key is present, None prints as None
DurationText(duration) ==
    IF duration = None THEN <<"N","o","n","e">> ELSE IntText(duration[1])

\* ' '.join(test_type)
RECURSIVE JoinSpaced(_)
JoinSpaced(words) ==
    IF words = << >> THEN << >>
    ELSE IF Len(words) = 1 THEN Spelled(words[1])
    ELSE Spelled(words[1]) \o <<" ">> \o JoinSpaced(Tail(words))

AssessmentText(assessment) ==
    assessment.name \o <<".", " ">>
        \o assessment.description \o <<".", " ">>
        \o <<"T","e","s","t"," ","t","y","p","e","s",":"," ">> \o JoinSpaced(assessment.test_type) \o <<".", " ">>
        \o <<"D","u","r","a","t","i","o","n",":"," ">> \o DurationText(assessment.duration)
        \o <<" ","m","i","n","u","t","e","s","."," ">>
        \o <<"A","d","a","p","t","i","v","e",":"," ">> \o Spelled(assessment.adaptive_support) \o <<".">>

_create_embeddings(catalog) ==
    Listed([i \in 1..Len(catalog) |-> Encode(AssessmentText(catalog[i]))])

(***************************************************************************)
(* Python values handed in as the query: a str with its text, or another   *)
(* object with its truth value.                                            *)
(***************************************************************************)
PyStr(text) == [is_str |-> TRUE, truthy |-> text # <<>>, text |-> text]

PyNone == [is_str |-> FALSE, truthy |-> FALSE, text |-> <<>>]

PyInt42 == [is_str |-> FALSE, truthy |-> TRUE, text |-> <<>>]

(***************************************************************************)
(* The URL entry point.  What requests.get and the HTML parser give is an  *)
(* input: the request fails, or the page has a main/article/body element   *)
(* with text, or it has none and the text of the whole document is taken.  *)
(***************************************************************************)
RequestFailed == [ok |-> FALSE, has_content |-> FALSE, text |-> <<>>]

Page(has_content, text) == [ok |-> TRUE, has_content |-> has_content, text |-> text]

NoResponse == [ok |-> FALSE, has_content |-> FALSE, text |-> <<"-">>]

_fetch_text_from_url(response) ==
    IF ~response.ok THEN PyNone
    ELSE IF response.has_content THEN PyStr(CollapseSpaces(response.text))
    ELSE PyStr(response.text)

(***************************************************************************)
(* Inputs of the calls.                                                    *)
(***************************************************************************)
\* recommend(query, top_k, final_k); 40 and 5 are the defaults of the source
RecommendInputs ==
    {[query |-> PyStr(TEST_QUERY_1), top_k |-> 40, final_k |-> 5],
     [query |-> PyStr(TEST_QUERY_1), top_k |-> 1, final_k |-> 1],
     [query |-> PyStr(TEST_QUERY_2), top_k |-> 40, final_k |-> 5],
     [query |-> PyStr(QueryTwoSkills), top_k |-> 40, final_k |-> 10],
     [query |-> PyStr(QueryTwoSkills), top_k |-> 1, final_k |-> 1],
     [query |-> PyStr(QueryShortLimit), top_k |-> 40, final_k |-> 5],
     [query |-> PyStr(QuerySenior), top_k |-> 40, final_k |-> 5],
     [query |-> PyStr(QueryGraduate), top_k |-> 40, final_k |-> 5],
     [query |-> PyStr(QueryBlank), top_k |-> 40, final_k |-> 5],
     [query |-> PyStr(<<>>), top_k |-> 40, final_k |-> 5],
     [query |-> PyNone, top_k |-> 40, final_k |-> 5],
     [query |-> PyInt42, top_k |-> 40, final_k |-> 5]}

\* recommend_from_url(url, top_k, final_k), with what the fetch of url meets
UrlInputs ==
    {[response |-> RequestFailed, top_k |-> 40, final_k |-> 5],
     [response |-> Page(FALSE, <<>>), top_k |-> 40, final_k |-> 5],
     [response |-> Page(TRUE, <<>>), top_k |-> 40, final_k |-> 5],
     [response |-> Page(TRUE, PageTwoSkills), top_k |-> 40, final_k |-> 10],
     [response |-> Page(FALSE, QueryShortLimit), top_k |-> 1, final_k |-> 1]}

QueryValues == {c.query : c \in RecommendInputs}

Responses == {c.response : c \in UrlInputs}

(***************************************************************************)
(* The feature extractor and the planner are pure, so what they give for   *)
(* the texts of the calls above is computed once and looked up afterwards. *)
(***************************************************************************)
QueryTexts ==
    {t : t \in {q.text : q \in {v \in QueryValues : v.is_str}}
                 \cup {_fetch_text_from_url(r).text : r \in Responses}}

FeatureTable == [t \in QueryTexts |-> _extract_features_locally(t)]

CleanedTexts == {FeatureTable[t].cleaned_tech_query : t \in QueryTexts}

PlanTable == [t \in CleanedTexts |-> _parse_tech_queries(t)]

\* features, cleaned_tech_query = self._extract_features_locally(query)
Extracted(query_text) ==
    IF query_text \in QueryTexts THEN FeatureTable[query_text]
    ELSE _extract_features_locally(query_text)

\* tech_queries = self._parse_tech_queries(cleaned_tech_query)
Planned(cleaned) ==
    IF cleaned \in CleanedTexts THEN PlanTable[cleaned] ELSE _parse_tech_queries(cleaned)

(***************************************************************************)
(* The state.                                                              *)
(*   assessments, assessment_embeddings: the fields of the recommender     *)
(*     object, set by __init__.                                            *)
(*   tie_order: how the build's argsort orders equal similarities.         *)
(*   call .. encode_calls: the latest call of recommend or                 *)
(*     recommend_from_url: its arguments, how it ended, what it returned,  *)
(*     its local variables (as they were when it returned or raised), and  *)
(*     the texts it handed to the encoder.                                 *)
(*   first: the first call made on the object, what it returned, and       *)
(*     whether a call with other arguments was made since.                 *)
(*   unit_pc, unit_in, unit_out: a direct call of the feature extractor    *)
(*     or the query planner on a text of its own.                          *)
(*   frames, dicts: the calls of recommend that request threads run at     *)
(*     the same time: the frame of each call (its position, arguments and  *)
(*     local variables, and whether it made a search while another call    *)
(*     was between two of its searches) and the all_candidates             *)
(*     dictionaries.                                                       *)
(*   http: the latest request to /api/recommend and the response to it.    *)
(***************************************************************************)
VARIABLES assessments, assessment_embeddings, tie_order,
          call, outcome, result, features, cleaned_tech_query, tech_queries,
          all_candidates, scored_candidates, encode_calls, first,
          unit_pc, unit_in, unit_out,
          frames, dicts,
          http

store_vars == <<assessments, assessment_embeddings, tie_order>>

call_vars == <<call, outcome, result, features, cleaned_tech_query, tech_queries,
               all_candidates, scored_candidates, encode_calls, first>>

unit_vars == <<unit_pc, unit_in, unit_out>>

thread_vars == <<frames, dicts>>

api_vars == <<http>>

vars == <<store_vars, call_vars, unit_vars, thread_vars, api_vars>>

Max2(a, b) == IF a >= b THEN a ELSE b

Min2(a, b) == IF a <= b THEN a ELSE b

\* seq[:k]
Slice(seq, k) ==
    IF k >= 0 THEN SubSeq(seq, 1, Min2(k, Len(seq)))
    ELSE SubSeq(seq, 1, Max2(0, Len(seq) + k))

(***************************************************************************)
(* Retrieval.  Catalog indices are 0-based as in the source; row i of a    *)
(* TLA+ sequence holds index i - 1.                                        *)
(***************************************************************************)
\* cosine_similarity(encode([text]), self.assessment_embeddings)[0]
Similarities(text) ==
    LET query_embedding == Encode(text)
    IN Listed([i \in 1..Len(assessment_embeddings) |->
                 Cosine(query_embedding, assessment_embeddings[i])])

\* row i stands before row j among rows of equal similarity
TieBefore(i, j) == IF tie_order = "higher_index_first" THEN i > j ELSE i < j

\* np.argsort(sims)[::-1]: the indices by descending similarity
ArgsortReversed(sims) ==
    LET n == Len(sims)
        Before(j, i) == sims[j] > sims[i] \/ (sims[j] = sims[i] /\ TieBefore(j, i))
        rank == Listed([i \in 1..n |-> Cardinality({j \in 1..n : Before(j, i)})])
    IN Listed([p \in 1..n |-> (CHOOSE i \in 1..n : rank[i] = p - 1) - 1])

TopIndices(text, k) == Slice(ArgsortReversed(Similarities(text)), k)

\* {**self.assessments[idx], 'context_similarity': sim, 'doc_index': idx}
NewCandidate(idx, sim) ==
    LET assessment == assessments[idx + 1]
    IN [name |-> assessment.name,
        url |-> assessment.url,
        description |-> assessment.description,
        test_type |-> assessment.test_type,
        duration |-> assessment.duration,
        adaptive_support |-> assessment.adaptive_support,
        remote_support |-> assessment.remote_support,
        context_similarity |-> sim,
        doc_index |-> idx]

\* a merge in which the latest similarity replaces the one found before
OverwriteHit(cands, idx, sim) ==
    LET at == {p \in 1..Len(cands) : cands[p].doc_index = idx}
    IN IF at = {} THEN Append(cands, NewCandidate(idx, sim))
       ELSE [cands EXCEPT ![CHOOSE p \in at : TRUE].context_similarity = sim]

\* one turn of the loop "for idx in top_indices": insert, or keep the maximum
MergeHit(cands, idx, sim) ==
    LET at == {p \in 1..Len(cands) : cands[p].doc_index = idx}
    IN IF at = {} THEN Append(cands, NewCandidate(idx, sim))
       ELSE [cands EXCEPT ![CHOOSE p \in at : TRUE].context_similarity = Max2(@, sim)]

\* self.assessments[idx] of a hit that is not yet a candidate raises
\* IndexError when the matrix row idx has no assessment
RaisesIndexError(cands, idx) ==
    /\ \A p \in 1..Len(cands) : cands[p].doc_index # idx
    /\ idx >= Len(assessments)

\* the loop over the hits of one search; at is [cands, n]: the dictionary so
\* far and the position of the next hit.  The result is the dictionary at
\* the end of the loop, or at the hit that raised.
RECURSIVE MergeHits(_, _, _)
MergeHits(at, hits, sims) ==
    IF at.n > Len(hits) THEN [cands |-> at.cands, raised |-> FALSE]
    ELSE IF RaisesIndexError(at.cands, hits[at.n]) THEN [cands |-> at.cands, raised |-> TRUE]
    ELSE MergeHits([cands |-> MergeHit(at.cands, hits[at.n], sims[hits[at.n] + 1]),
                    n |-> at.n + 1], hits, sims)

\* one search and the merge of its hits
MergePass(cands, pass) ==
    LET similarities == Similarities(pass.text)
    IN MergeHits([cands |-> cands, n |-> 1],
                 Slice(ArgsortReversed(similarities), pass.k), similarities)

\* the searches one after the other; at is [cands, n] as above.  searched is
\* the number of searches begun.
RECURSIVE MergePassesFrom(_, _)
MergePassesFrom(at, passes) ==
    IF at.n > Len(passes)
    THEN [cands |-> at.cands, raised |-> FALSE, searched |-> Len(passes)]
    ELSE LET merged == MergePass(at.cands, passes[at.n])
         IN IF merged.raised
            THEN [cands |-> merged.cands, raised |-> TRUE, searched |-> at.n]
            ELSE MergePassesFrom([cands |-> merged.cands, n |-> at.n + 1], passes)

MergePasses(cands, passes) == MergePassesFrom([cands |-> cands, n |-> 1], passes)

MinPerQuery == 10

\* a share of top_k per sub-query without the minimum of ten
ShareOfTopK(top_k, num_queries) == (top_k \div num_queries) + 2

k_per_query(top_k, num_queries) == Max2(MinPerQuery, (top_k \div num_queries) + 2)

\* the searches of recommend, in order: one per sub-query, then the full query
Passes(query_text, queries, top_k) ==
    [i \in 1..Len(queries) |-> [text |-> queries[i], k |-> k_per_query(top_k, Len(queries))]]
        \o << [text |-> query_text, k |-> top_k] >>

\* a recommend that goes on with the dictionary of the call before
KeptCandidates(previous) == previous

\* all_candidates = {} at the start of recommend
FreshCandidates(previous) == << >>

(***************************************************************************)
(* Ranking.  Scores are exact fixed-point integers: the flags and the      *)
(* level score are times 100 like the similarities, the weights are in     *)
(* percent, and the boost of 1.10 is a factor 110 against 100.             *)
(***************************************************************************)
WEIGHTS == [tech_sim |-> 60, soft_skill |-> 20, context_sim |-> 10, level |-> 10]

CollabKeywords ==
    << <<"p","e","r","s","o","n","a","l","i","t","y">>,
       <<"b","e","h","a","v","i","o","u","r">>,
       <<"c","o","m","m","u","n","i","c","a","t","i","o","n">>,
       <<"t","e","a","m">>, <<"o","p","q">> >>

WordEntry == <<"e","n","t","r","y">>

WordAdvanced == <<"a","d","v","a","n","c","e","d">>

WordSenior == <<"s","e","n","i","o","r">>

InList(x, list) == \E i \in 1..Len(list) : list[i] = x

\* which keywords a name or description holds, lower-cased; for the texts
\* of the catalog file this is computed once and looked up afterwards
KeywordsIn(text) ==
    LET low == Lower(text)
    IN [collab |-> ContainsAny(low, CollabKeywords),
        entry |-> Contains(low, WordEntry),
        advanced |-> Contains(low, WordAdvanced),
        senior |-> Contains(low, WordSenior)]

TextsOf(catalog) ==
    {t : t \in {catalog[i].name : i \in 1..Len(catalog)}
                 \cup {catalog[i].description : i \in 1..Len(catalog)}}

CatalogTexts == TextsOf(CatalogFile)

KeywordTable == [t \in CatalogTexts |-> KeywordsIn(t)]

Keywords(text) == IF text \in CatalogTexts THEN KeywordTable[text] ELSE KeywordsIn(text)

IsSoftSkillDoc(candidate) ==
    \/ Keywords(candidate.name).collab
    \/ Keywords(candidate.description).collab
    \/ InList("Personality & Behaviour", candidate.test_type)

\* a level score that reads a senior role like an entry role
LevelOfEntryRole(role_level, in_name) ==
    IF role_level \in {"entry", "senior"}
    THEN IF in_name.entry THEN 100
         ELSE IF in_name.advanced \/ in_name.senior THEN 0
         ELSE 50
    ELSE 50

\* level_score, from the keywords found in the lower-cased name
LevelScoreOf(role_level, in_name) ==
    IF role_level = "entry"
    THEN IF in_name.entry THEN 100
         ELSE IF in_name.advanced \/ in_name.senior THEN 0
         ELSE 50
    ELSE IF role_level = "senior"
    THEN IF in_name.entry THEN 0
         ELSE IF in_name.advanced \/ in_name.senior THEN 100
         ELSE 50
    ELSE 50

LevelScore(role_level, name) == LevelScoreOf(role_level, Keywords(name))

WeightedSum(tech_sim, soft_skill, context_sim, level) ==
    tech_sim * WEIGHTS.tech_sim + soft_skill * WEIGHTS.soft_skill
        + context_sim * WEIGHTS.context_sim + level * WEIGHTS.level

\* a score that is boosted for every soft-skill document, requested or not
BoostAnySoftDoc(feat, tech_sim, candidate) ==
    LET soft == IF IsSoftSkillDoc(candidate) THEN 100 ELSE 0
        sum == WeightedSum(tech_sim, soft, candidate.context_similarity,
                           LevelScore(feat.role_level, candidate.name))
    IN IF soft # 0 THEN sum * 110 ELSE sum * 100

\* final_score of one candidate, times 10^6
FinalScore(feat, tech_sim, candidate) ==
    LET soft == IF IsSoftSkillDoc(candidate) THEN 100 ELSE 0
        sum == WeightedSum(tech_sim, soft, candidate.context_similarity,
                           LevelScore(feat.role_level, candidate.name))
    IN IF feat.soft_skill_requested /\ soft # 0 THEN sum * 110 ELSE sum * 100

\* candidate['duration'] > features['max_duration'] raises TypeError on None
DurationRaises(feat, candidate) ==
    feat.max_duration # None /\ candidate.duration = None

\* a ranker that skips no candidate
NothingFiltered(feat, candidate) == FALSE

\* the hard filter: the candidate is skipped
DurationFiltered(feat, candidate) ==
    /\ feat.max_duration # None
    /\ candidate.duration # None
    /\ candidate.duration[1] > feat.max_duration[1]

\* a ranker that leaves the scored candidates in the order of the loop
Unsorted(scored) == scored

\* a sort that puts the later of two candidates of equal score first
SortTiesReversed(scored) ==
    LET n == Len(scored)
        Before(j, i) ==
            \/ scored[j].final_score > scored[i].final_score
            \/ (scored[j].final_score = scored[i].final_score /\ j > i)
        rank == Listed([i \in 1..n |-> Cardinality({j \in 1..n : Before(j, i)})])
    IN Listed([p \in 1..n |-> scored[CHOOSE i \in 1..n : rank[i] = p - 1]])

\* scored_candidates.sort(key=final_score, reverse=True): a stable sort
SortByScore(scored) ==
    LET n == Len(scored)
        Before(j, i) ==
            \/ scored[j].final_score > scored[i].final_score
            \/ (scored[j].final_score = scored[i].final_score /\ j < i)
        rank == Listed([i \in 1..n |-> Cardinality({j \in 1..n : Before(j, i)})])
    IN Listed([p \in 1..n |-> scored[CHOOSE i \in 1..n : rank[i] = p - 1]])

InternalFields == {"final_score", "context_similarity", "doc_index"}

\* a ranker that returns its scored dictionaries as they are
KeepInternal(rec) == rec

\* the three del statements on a record of the result
StripInternal(rec) == [f \in (DOMAIN rec) \ InternalFields |-> rec[f]]

\* a ranker that returns the whole sorted list
Untruncated(sorted, final_k) == sorted

\* scored_candidates[:final_k]
Truncate(sorted, final_k) == Slice(sorted, final_k)

\* a log that reports the re-ranked candidates only
LogOfPassed(total, removed, passed) ==
    [kind |-> "validation_log", total |-> passed, removed |-> 0, passed |-> passed]

\* "Processed <total> candidates. Filtered <removed> for duration.
\*  Re-ranked <passed> using a multi-signal score ..."
ValidationLog(total, removed, passed) ==
    [kind |-> "validation_log", total |-> total, removed |-> removed, passed |-> passed]

NoReasoning == [kind |-> "none", total |-> 0, removed |-> 0, passed |-> 0]

FetchFailed == [kind |-> "fetch_failed", total |-> 0, removed |-> 0, passed |-> 0]

(***************************************************************************)
(* The dictionaries a call builds and writes to.  {**d, ...} makes a new   *)
(* dictionary: what is set in it or deleted from it does not reach d.  A   *)
(* write is [dict, set, del]: the dictionary, the fields set with their    *)
(* values, and the fields deleted afterwards.                              *)
(***************************************************************************)
\* self.assessments[idx]
CatalogDict(idx) == <<"assessment", idx>>

\* a candidate that is the catalog record itself, not a copy of it
CatalogAlias(idx) == CatalogDict(idx)

\* all_candidates[idx] = {**self.assessments[idx], ...}
CandidateDict(idx) == <<"candidate", idx>>

\* {**candidate, 'final_score': final_score}
ScoredDict(idx) == <<"scored", idx>>

\* the searches set context_similarity and doc_index in each candidate
RetrievalWrites(cands) ==
    [p \in 1..Len(cands) |->
        [dict |-> CandidateDict(cands[p].doc_index),
         set |-> [context_similarity |-> cands[p].context_similarity,
                  doc_index |-> cands[p].doc_index],
         del |-> {}]]

\* the ranker sets final_score in each scored dictionary, and deletes the
\* three request fields from the first returned ones
RankingWrites(scored, returned) ==
    [m \in 1..Len(scored) |->
        [dict |-> ScoredDict(scored[m].doc_index),
         set |-> [final_score |-> scored[m].final_score],
         del |-> IF m <= returned THEN InternalFields ELSE {}]]

Written(rec, w) ==
    [f \in (DOMAIN rec \cup DOMAIN w.set) \ w.del |->
        IF f \in DOMAIN w.set THEN w.set[f] ELSE rec[f]]

RECURSIVE WrittenAll(_, _)
WrittenAll(rec, writes) ==
    IF writes = << >> THEN rec ELSE WrittenAll(Written(rec, Head(writes)), Tail(writes))

\* the catalog after a call that made these writes
StoreAfter(catalog, writes) ==
    Listed([i \in 1..Len(catalog) |->
        LET Mine(w) == w.dict = CatalogDict(i - 1)
        IN WrittenAll(catalog[i], SelectSeq(writes, Mine))])

\* a ranker that takes the tech-only embedding from somewhere else
NoRankerEncode(cleaned) == << >>

\* tech_embedding = self.model.encode([cleaned_tech_query], ...)
RankerEncodes(cleaned) == << cleaned >>

\* cosine_similarity(tech_embedding, candidate_embeddings)[0]
TechSimilarities(candidates, tech_embedding) ==
    Listed([i \in 1..Len(candidates) |->
        Cosine(tech_embedding, assessment_embeddings[candidates[i].doc_index + 1])])

\* how many candidates the loop of the ranker gets through: all of them, or
\* those before the first one whose duration comparison raises
Looped(feat, candidates) ==
    LET raising == {i \in 1..Len(candidates) : DurationRaises(feat, candidates[i])}
    IN IF raising = {} THEN Len(candidates) ELSE Min(raising) - 1

\* the positions, among the first looped candidates, that pass the hard filter
Kept(feat, candidates, looped) ==
    LET Passes_filter(i) == ~DurationFiltered(feat, candidates[i])
    IN SelectSeq([i \in 1..looped |-> i], Passes_filter)

\* a loop that counts the similarities along with the candidates it keeps
AppendedShifted(feat, candidates, tech_similarities, kept) ==
    Listed([m \in 1..Len(kept) |->
        [final_score |-> FinalScore(feat, tech_similarities[m], candidates[kept[m]])]
            @@ candidates[kept[m]]])

\* scored_candidates.append({**candidate, 'final_score': final_score})
Appended(feat, candidates, tech_similarities, kept) ==
    Listed([m \in 1..Len(kept) |->
        [final_score |-> FinalScore(feat, tech_similarities[kept[m]], candidates[kept[m]])]
            @@ candidates[kept[m]]])

\* the ranker after its loop came to the end: sort, log, cut, delete, return
RankerReturns(total, sorted, final_recommendations, cleaned) ==
    [outcome |-> "returned",
     result |->
        [recommendations |->
            [m \in 1..Len(final_recommendations) |-> StripInternal(final_recommendations[m])],
         reasoning |-> ValidationLog(total, total - Len(sorted), Len(sorted))],
     scored_candidates |-> sorted,
     encode_calls |-> RankerEncodes(cleaned),
     writes |-> RankingWrites(sorted, Len(final_recommendations))]

\* the ranker when the duration comparison raised in its loop
RankerRaises(appended, cleaned) ==
    [outcome |-> "TypeError",
     result |-> [recommendations |-> <<>>, reasoning |-> NoReasoning],
     scored_candidates |-> appended,
     encode_calls |-> RankerEncodes(cleaned),
     writes |-> RankingWrites(appended, 0)]

RankerEnds(total, looped, appended, sorted, cleaned, final_k) ==
    IF looped < total THEN RankerRaises(appended, cleaned)
    ELSE RankerReturns(total, sorted, Truncate(sorted, final_k), cleaned)

RankerSorts(total, looped, appended, cleaned, final_k) ==
    RankerEnds(total, looped, appended, SortByScore(appended), cleaned, final_k)

RankerLoops(feat, candidates, tech_similarities, looped, cleaned, final_k) ==
    RankerSorts(Len(candidates), looped,
                Appended(feat, candidates, tech_similarities, Kept(feat, candidates, looped)),
                cleaned, final_k)

\* The ranker.  scored_candidates is the list after the sort, or as far as
\* the loop came when the duration comparison raised.
_validate_and_rank_locally(feat, candidates, cleaned, final_k) ==
    RankerLoops(feat, candidates, TechSimilarities(candidates, Encode(cleaned)),
                Looped(feat, candidates), cleaned, final_k)

\* "if not query or not isinstance(query, str)"
InvalidQuery(query) == ~query.truthy \/ ~query.is_str

Rejected ==
    [outcome |-> "ValueError",
     result |-> [recommendations |-> <<>>, reasoning |-> NoReasoning],
     features |-> None, cleaned_tech_query |-> <<>>, tech_queries |-> <<>>,
     all_candidates |-> <<>>, scored_candidates |-> <<>>, encode_calls |-> <<>>,
     writes |-> <<>>]

\* recommend raised IndexError in a search
RetrievalRaised(extracted, queries, retrieved, texts) ==
    [outcome |-> "IndexError",
     result |-> [recommendations |-> <<>>, reasoning |-> NoReasoning],
     features |-> Some(extracted.features),
     cleaned_tech_query |-> extracted.cleaned_tech_query,
     tech_queries |-> queries,
     all_candidates |-> retrieved.cands,
     scored_candidates |-> <<>>,
     encode_calls |-> SubSeq(texts, 1, retrieved.searched),
     writes |-> RetrievalWrites(retrieved.cands)]

\* recommend ended as its ranker did
Ranked(extracted, queries, retrieved, texts, ranked) ==
    [outcome |-> ranked.outcome,
     result |-> ranked.result,
     features |-> Some(extracted.features),
     cleaned_tech_query |-> extracted.cleaned_tech_query,
     tech_queries |-> queries,
     all_candidates |-> retrieved.cands,
     scored_candidates |-> ranked.scored_candidates,
     encode_calls |-> texts \o ranked.encode_calls,
     writes |-> RetrievalWrites(retrieved.cands) \o ranked.writes]

\* STEP 3 & 4: the ranker on the retrieved candidates
Ranking(query_text, extracted, queries, retrieved, final_k) ==
    IF retrieved.raised
    THEN RetrievalRaised(extracted, queries, retrieved, queries \o << query_text >>)
    ELSE Ranked(extracted, queries, retrieved, queries \o << query_text >>,
                _validate_and_rank_locally(extracted.features, retrieved.cands,
                                           extracted.cleaned_tech_query, final_k))

\* STEP 2: the searches, into a dictionary that starts empty
Retrieval(previous, query_text, extracted, queries, top_k, final_k) ==
    Ranking(query_text, extracted, queries,
            MergePasses(FreshCandidates(previous), Passes(query_text, queries, top_k)),
            final_k)

\* the query planner on the cleaned text
Planning(previous, query_text, extracted, top_k, final_k) ==
    Retrieval(previous, query_text, extracted, Planned(extracted.cleaned_tech_query),
              top_k, final_k)

\* recommend after its validation; STEP 1 is the feature extraction
Pipeline(previous, query_text, top_k, final_k) ==
    Planning(previous, query_text, Extracted(query_text), top_k, final_k)

recommend(previous, query, top_k, final_k) ==
    IF InvalidQuery(query) THEN Rejected
    ELSE Pipeline(previous, query.text, top_k, final_k)

\* a URL entry point that hands whatever the fetch gave to recommend
RecommendWhatever(previous, response, top_k, final_k) ==
    recommend(previous, _fetch_text_from_url(response), top_k, final_k)

recommend_from_url(previous, response, top_k, final_k) ==
    LET job_description_text == _fetch_text_from_url(response)
    IN IF job_description_text.truthy
       THEN recommend(previous, job_description_text, top_k, final_k)
       ELSE [Rejected EXCEPT !.outcome = "returned",
                             !.result = [recommendations |-> <<>>, reasoning |-> FetchFailed]]

TieOrders == {"higher_index_first", "lower_index_first"}

NoCall ==
    [op |-> "none", query |-> PyNone, response |-> NoResponse, top_k |-> 0, final_k |-> 0]

(***************************************************************************)
(* The handler of /api/recommend.  A request is what the client sent: the  *)
(* method; where its parameters stand (the query string of a GET, the JSON *)
(* object or the form of a POST, or no body at all); the type, the query   *)
(* and final_k as the values the handler reads; and, for a request of type *)
(* url, what the fetch of the URL meets.                                   *)
(***************************************************************************)
\* values of the parameter final_k: not sent, null, an integer, a number
\* with one decimal digit (in tenths), a string
Absent == [kind |-> "absent", n |-> 0, text |-> << >>]

JsonNull == [kind |-> "null", n |-> 0, text |-> << >>]

JsonInt(n) == [kind |-> "int", n |-> n, text |-> << >>]

JsonTenths(n) == [kind |-> "float", n |-> n, text |-> << >>]

Text(t) == [kind |-> "str", n |-> 0, text |-> t]

\* int(text) of a str: whitespace around, a sign, digits.  None stands for
\* the ValueError of every other text.
IntOfText(text) ==
    LET t == Strip(text)
        negative == t # << >> /\ t[1] = "-"
        digits == IF negative THEN Tail(t) ELSE t
    IN IF digits # << >> /\ (\A i \in 1..Len(digits) : digits[i] \in DigitSet)
       THEN Some(IF negative THEN 0 - ParseInt(digits) ELSE ParseInt(digits))
       ELSE None

\* int(value): a float is cut towards zero.  None stands for the exception
\* int raises.
IntOf(value) ==
    CASE value.kind = "int" -> Some(value.n)
      [] value.kind = "float" ->
            Some(IF value.n >= 0 THEN value.n \div 10 ELSE 0 - ((0 - value.n) \div 10))
      [] value.kind = "str" -> IntOfText(value.text)
      [] OTHER -> None

DefaultFinalK == 5

MaxFinalK == 10

MinTopK == 20

\* try: final_k = int(....get('final_k', final_k)) / except Exception: final_k = 5.
\* The dictionary made of a form has no final_k.
RequestedFinalK(request) ==
    IF request.body \in {"form", "none"} \/ request.final_k.kind = "absent"
    THEN DefaultFinalK
    ELSE IF IntOf(request.final_k) = None THEN DefaultFinalK
    ELSE IntOf(request.final_k)[1]

\* a handler that hands the requested final_k on as it is
Unclamped(final_k) == final_k

\* final_k = max(1, min(10, int(final_k)))
ClampedFinalK(final_k) == Max2(1, Min2(MaxFinalK, final_k))

\* top_k = max(20, final_k * 4)
TopKFor(final_k) == Max2(MinTopK, final_k * 4)

\* (....get('query') or '').strip().  None stands for the AttributeError of
\* a truthy value that is no str.
QueryValue(request) ==
    IF request.body = "none" \/ ~request.query.truthy THEN Some(<< >>)
    ELSE IF ~request.query.is_str THEN None
    ELSE Some(Strip(request.query.text))

NoRequest ==
    [method |-> "none", body |-> "none", type |-> "text", query |-> PyNone,
     final_k |-> Absent, page |-> NoResponse]

\* no request was handled yet
NoExchange ==
    [request |-> NoRequest, status |-> 0, final_k |-> 0, top_k |-> 0,
     recommended_assessments |-> << >>, reasoning_trace |-> NoReasoning]

\* return jsonify({'error': 'Query cannot be empty'}), 400
BadRequest(request) ==
    [request |-> request, status |-> 400, final_k |-> 0, top_k |-> 0,
     recommended_assessments |-> << >>, reasoning_trace |-> NoReasoning]

\* except Exception: return jsonify({'success': False, 'error': str(e)}), 500
ServerError(request, final_k, top_k) ==
    [request |-> request, status |-> 500, final_k |-> final_k, top_k |-> top_k,
     recommended_assessments |-> << >>, reasoning_trace |-> NoReasoning]

\* return jsonify({'recommended_assessments': results, 'reasoning_trace': reasoning})
Answered(request, final_k, top_k, results, reasoning) ==
    [request |-> request, status |-> 200, final_k |-> final_k, top_k |-> top_k,
     recommended_assessments |-> results, reasoning_trace |-> reasoning]

\* if not results: the first assessment of the catalog, when there is one
BestEffort(results, catalog) ==
    IF results = << >> /\ catalog # << >> THEN << catalog[1] >> ELSE results

\* the handler after the call c of the recommender, which did r: the answer
\* made of results[:final_k], or the error response when the call raised
Responded(request, final_k, top_k, c, r) ==
    [called |-> TRUE, call |-> c, did |-> r,
     http |-> IF r.outcome # "returned"
              THEN ServerError(request, final_k, top_k)
              ELSE Answered(request, final_k, top_k,
                            BestEffort(Slice(r.result.recommendations, final_k),
                                       StoreAfter(assessments, r.writes)),
                            r.result.reasoning)]

\* the handler returned or raised before it called the recommender
NotCalled(response) ==
    [called |-> FALSE, call |-> NoCall, did |-> Rejected, http |-> response]

\* if query_type == 'url': recommend_from_url, else: recommend
Calls(previous, request, query_value, final_k, top_k) ==
    IF request.type = "url"
    THEN Responded(request, final_k, top_k,
                   [op |-> "recommend_from_url", query |-> PyNone,
                    response |-> request.page, top_k |-> top_k, final_k |-> final_k],
                   recommend_from_url(previous, request.page, top_k, final_k))
    ELSE Responded(request, final_k, top_k,
                   [op |-> "recommend", query |-> PyStr(query_value),
                    response |-> NoResponse, top_k |-> top_k, final_k |-> final_k],
                   recommend(previous, PyStr(query_value), top_k, final_k))

Sized(previous, request, query_value, final_k) ==
    Calls(previous, request, query_value, final_k, TopKFor(final_k))

\* "if not query_value": the 400 response
Validated(previous, request, query_value) ==
    IF query_value = None THEN NotCalled(ServerError(request, 0, 0))
    ELSE IF query_value[1] = << >> THEN NotCalled(BadRequest(request))
    ELSE Sized(previous, request, query_value[1], ClampedFinalK(RequestedFinalK(request)))

\* recommend() of app.py: what the handler calls and what it answers
api_recommend(previous, request) == Validated(previous, request, QueryValue(request))

\* a GET with its query string, a POST with a JSON object, a POST with a form
Get(query, final_k) ==
    [method |-> "GET", body |-> "args", type |-> "text", query |-> query,
     final_k |-> final_k, page |-> NoResponse]

PostJson(query, final_k) ==
    [method |-> "POST", body |-> "json", type |-> "text", query |-> query,
     final_k |-> final_k, page |-> NoResponse]

PostUrl(page, final_k) ==
    [method |-> "POST", body |-> "json", type |-> "url", query |-> PyStr(<<"u">>),
     final_k |-> final_k, page |-> page]

PostForm(query) ==
    [method |-> "POST", body |-> "form", type |-> "text", query |-> query,
     final_k |-> Absent, page |-> NoResponse]

PostNothing ==
    [method |-> "POST", body |-> "none", type |-> "text", query |-> PyNone,
     final_k |-> Absent, page |-> NoResponse]

ApiRequests ==
    {Get(PyStr(TEST_QUERY_1), Absent),
     Get(PyStr(QueryTwoSkills), Text(<<"1","0">>)),
     Get(PyStr(QueryTwoSkills), Text(<<"a","b","c">>)),
     PostJson(PyStr(QueryShortLimit), JsonInt(3)),
     PostJson(PyStr(TEST_QUERY_1), JsonInt(0)),
     PostJson(PyStr(QueryTwoSkills), JsonInt(99)),
     PostJson(PyStr(QueryTwoSkills), JsonTenths(79)),
     PostJson(PyStr(QuerySenior), JsonNull),
     PostJson(PyStr(QueryBlank), JsonInt(5)),
     PostJson(PyInt42, JsonInt(5)),
     PostForm(PyStr(QueryGraduate)),
     PostUrl(Page(TRUE, PageTwoSkills), Text(<<"-","2">>)),
     PostUrl(RequestFailed, JsonInt(2)),
     PostNothing}

(***************************************************************************)
(* Startup: __init__ loads the catalog and the embedding matrix.           *)
(***************************************************************************)
\* the request threads of the server; each runs one call at a time
NumThreads == 2

Threads == 1..NumThreads

IdleFrame ==
    [pc |-> "idle", call |-> NoCall, outcome |-> "none",
     result |-> [recommendations |-> <<>>, reasoning |-> NoReasoning],
     features |-> None, cleaned_tech_query |-> <<>>, tech_queries |-> <<>>,
     searched |-> 0, candidates |-> <<>>, scored_candidates |-> <<>>,
     interleaved |-> FALSE]

Idle ==
    /\ http = NoExchange
    /\ frames = [t \in Threads |-> IdleFrame]
    /\ dicts = [t \in Threads |-> << >>]
    /\ call = NoCall
    /\ outcome = "none"
    /\ result = [recommendations |-> <<>>, reasoning |-> NoReasoning]
    /\ features = None
    /\ cleaned_tech_query = <<>>
    /\ tech_queries = <<>>
    /\ all_candidates = <<>>
    /\ scored_candidates = <<>>
    /\ encode_calls = <<>>
    /\ first = None

\* The embeddings file the startup meets: none, or a matrix pickled earlier,
\* for the catalog as it is now or as it was with one record more or less.
EmbeddingsFiles ==
    {None} \cup {Some(StoredMatrix(m, rows)) :
                    m \in 1..NumMatrices, rows \in (NumAssessments - 1)..NumAssessments}

\* pickle.load(f), or on FileNotFoundError self._create_embeddings(...)
LoadedEmbeddings(catalog, file) ==
    IF file = None THEN _create_embeddings(catalog) ELSE file[1]

Loaded(catalog, file, tie) ==
    /\ assessments = catalog
    /\ assessment_embeddings = Listed(LoadedEmbeddings(catalog, file))
    /\ tie_order = tie

Init ==
    /\ \E n \in (NumAssessments - 1)..NumAssessments, file \in EmbeddingsFiles, tie \in TieOrders :
          Loaded(SubSeq(CatalogFile, 1, n), file, tie)
    /\ Idle
    /\ unit_pc = "off"
    /\ unit_in = <<>>
    /\ unit_out = [features |-> None, cleaned_tech_query |-> << >>, queries |-> << >>]

\* the call ends: its locals and its result are what r says, and the catalog
\* is what the writes of the call made of it
Finish(c, r) ==
    /\ call' = c
    /\ outcome' = r.outcome
    /\ result' = r.result
    /\ features' = r.features
    /\ cleaned_tech_query' = r.cleaned_tech_query
    /\ tech_queries' = r.tech_queries
    /\ all_candidates' = r.all_candidates
    /\ scored_candidates' = r.scored_candidates
    /\ encode_calls' = r.encode_calls
    /\ first' = IF first = None
                THEN Some([call |-> c, outcome |-> r.outcome, result |-> r.result,
                           others |-> FALSE])
                ELSE IF c # first[1].call THEN Some([first[1] EXCEPT !.others = TRUE])
                ELSE first
    /\ assessments' = StoreAfter(assessments, r.writes)
    /\ UNCHANGED <<assessment_embeddings, tie_order, unit_vars, thread_vars>>

Recommend(query, top_k, final_k) ==
    /\ unit_pc = "off"
    /\ Finish([op |-> "recommend", query |-> query, response |-> NoResponse,
               top_k |-> top_k, final_k |-> final_k],
              recommend(all_candidates, query, top_k, final_k))
    /\ UNCHANGED api_vars

RecommendFromUrl(response, top_k, final_k) ==
    /\ unit_pc = "off"
    /\ Finish([op |-> "recommend_from_url", query |-> PyNone, response |-> response,
               top_k |-> top_k, final_k |-> final_k],
              recommend_from_url(all_candidates, response, top_k, final_k))
    /\ UNCHANGED api_vars

Next ==
    \/ \E c \in RecommendInputs : Recommend(c.query, c.top_k, c.final_k)
    \/ \E c \in UrlInputs : RecommendFromUrl(c.response, c.top_k, c.final_k)

Spec == Init /\ [][Next]_vars

\* the handler ends: the response is sent, and the recommender is as the
\* call left it, or untouched when the handler did not call it
ApiEnds(h) ==
    /\ http' = h.http
    /\ IF h.called THEN Finish(h.call, h.did)
       ELSE UNCHANGED <<store_vars, call_vars, unit_vars, thread_vars>>

\* one request to /api/recommend
ApiRecommend(request) ==
    /\ unit_pc = "off"
    /\ ApiEnds(api_recommend(all_candidates, request))

ApiNext == \E request \in ApiRequests : ApiRecommend(request)

\* the server: the recommender made at startup, then requests
ApiSpec == Init /\ [][ApiNext]_vars

(***************************************************************************)
(* Properties of the calls.                                                *)
(***************************************************************************)
\* the recommendations the latest call returned
Recommendations == result.recommendations

\* the latest call ran the pipeline of recommend on a valid query
PipelineRan == features # None

\* the latest call returned its result to the caller
Returned == PipelineRan /\ outcome = "returned"

\* the searches of the latest call came to their end
Retrieved == PipelineRan /\ outcome # "IndexError"

\* the candidates of the latest call that an output record was made from
ReturnedCandidates ==
    {p \in 1..Len(all_candidates) :
        \E m \in 1..Len(Recommendations) : Recommendations[m].url = all_candidates[p].url}

\* the final score the ranker of the latest call gives to candidate number p
ScoreOf(p) ==
    FinalScore(features[1],
               Cosine(Encode(cleaned_tech_query),
                      assessment_embeddings[all_candidates[p].doc_index + 1]),
               all_candidates[p])

\* candidate number p of the latest call is longer than the derived limit
TooLong(p) ==
    /\ all_candidates[p].duration # None
    /\ all_candidates[p].duration[1] > features[1].max_duration[1]

\* C1: whenever feature extraction derives a max_duration, every returned
\* recommendation has a known duration of at most max_duration, and no
\* candidate longer than max_duration is among the returned ones.
C1_HardDurationFilter ==
    (PipelineRan /\ features[1].max_duration # None) =>
        /\ \A m \in 1..Len(Recommendations) :
              /\ Recommendations[m].duration # None
              /\ Recommendations[m].duration[1] <= features[1].max_duration[1]
        /\ \A p \in 1..Len(all_candidates) : TooLong(p) => p \notin ReturnedCandidates

\* a call with a limit returned recommendations and left out a longer
\* candidate that scores higher than a returned one
C1_Witness ==
    /\ call.op = "recommend"
    /\ Returned
    /\ features[1].max_duration # None
    /\ Recommendations # << >>
    /\ \E p \in 1..Len(all_candidates) :
          /\ TooLong(p)
          /\ \E q \in ReturnedCandidates : ScoreOf(p) > ScoreOf(q)

\* C2: for a non-empty query and final_k in 1..10, recommend returns at most
\* final_k recommendations: the latest call did, and so does the ranker on
\* its candidates for every final_k of the range.
C2_AtMostFinalK ==
    (call.op = "recommend" /\ PipelineRan /\ call.query.text # << >>) =>
        /\ call.final_k \in 1..MaxFinalK => Len(Recommendations) <= call.final_k
        /\ \A final_k \in 1..MaxFinalK :
              Len(_validate_and_rank_locally(features[1], all_candidates, cleaned_tech_query,
                                             final_k).result.recommendations) <= final_k

\* more candidates passed the filter than final_k, and exactly final_k came back
C2_Witness ==
    /\ call.op = "recommend"
    /\ Returned
    /\ call.final_k \in 1..MaxFinalK
    /\ result.reasoning.passed > call.final_k
    /\ Len(Recommendations) = call.final_k

\* C3: a call of recommend with the arguments of the first call returns what
\* the first call returned: the same ordered recommendations and reasoning.
C3_Determinism ==
    (first # None /\ call.op = "recommend" /\ call = first[1].call) =>
        /\ outcome = first[1].outcome
        /\ result = first[1].result

\* the first call is repeated after calls with other arguments, and returns
\* recommendations
C3_Witness ==
    /\ first # None
    /\ first[1].others
    /\ call.op = "recommend"
    /\ call = first[1].call
    /\ Returned
    /\ Recommendations # << >>


\* a text of whitespace only, the empty text included
Blank(text) == \A i \in 1..Len(text) : text[i] \in SpaceSet

\* C4: recommend rejects an empty, blank or non-string query with the
\* invalid-query error before any retrieval work: no feature extraction, no
\* embedding call, no similarity search.
C4_InvalidQueryRejected ==
    (call.op = "recommend" /\ (~call.query.is_str \/ Blank(call.query.text))) =>
        /\ outcome = "ValueError"
        /\ features = None
        /\ encode_calls = << >>
        /\ all_candidates = << >>

\* what the fetch of the latest call of recommend_from_url gave
FetchedText == _fetch_text_from_url(call.response)

\* C5: a call of recommend_from_url whose fetch yields no text returns, with
\* no recommendations and the fetch-failed reasoning, and runs no part of the
\* pipeline; one whose fetch yields text gives what recommend gives for that
\* text and the same top_k and final_k.
C5_UrlEntryPoint ==
    call.op = "recommend_from_url" =>
        IF FetchedText.truthy
        THEN LET direct == recommend(<< >>, FetchedText, call.top_k, call.final_k)
             IN outcome = direct.outcome /\ result = direct.result
        ELSE /\ outcome = "returned"
             /\ Recommendations = << >>
             /\ result.reasoning = FetchFailed
             /\ features = None
             /\ tech_queries = << >>
             /\ encode_calls = << >>
             /\ all_candidates = << >>

\* a page was fetched and had no text, after a first call by URL whose page
\* had text and brought recommendations
C5_Witness ==
    /\ call.op = "recommend_from_url"
    /\ call.response.ok
    /\ ~FetchedText.truthy
    /\ outcome = "returned"
    /\ first # None
    /\ first[1].call.op = "recommend_from_url"
    /\ first[1].outcome = "returned"
    /\ first[1].result.recommendations # << >>

\* the query text the pipeline of the latest call worked on
QueryText == IF call.op = "recommend" THEN call.query.text ELSE FetchedText.text

\* the searches of the latest call, and the catalog indices search i returned
Searches == Passes(QueryText, tech_queries, call.top_k)

HitsOf(i) == Range(TopIndices(Searches[i].text, Searches[i].k))

\* the similarity catalog index idx has in search i
SimIn(i, idx) == Similarities(Searches[i].text)[idx + 1]

Max(S) == CHOOSE x \in S : \A y \in S : x >= y

Reverse(seq) == [i \in 1..Len(seq) |-> seq[Len(seq) + 1 - i]]

\* a candidate dictionary as the set of its (index, context_similarity) pairs
Pairs(cands) ==
    {<<cands[p].doc_index, cands[p].context_similarity>> : p \in 1..Len(cands)}

\* C6: the candidates are the union of the hits of the sub-query searches
\* and the full-query search, one candidate per catalog index, each with the
\* maximum of its similarities in the searches that returned it, whatever
\* the order of the searches.
C6_MergeIsUnionWithMax ==
    Retrieved =>
        /\ {all_candidates[p].doc_index : p \in 1..Len(all_candidates)}
              = UNION {HitsOf(i) : i \in 1..Len(Searches)}
        /\ \A p, q \in 1..Len(all_candidates) :
              all_candidates[p].doc_index = all_candidates[q].doc_index => p = q
        /\ \A p \in 1..Len(all_candidates) :
              LET idx == all_candidates[p].doc_index
              IN all_candidates[p].context_similarity
                   = Max({SimIn(i, idx) : i \in {j \in 1..Len(Searches) : idx \in HitsOf(j)}})
        /\ Pairs(MergePasses(<< >>, Reverse(Searches)).cands) = Pairs(all_candidates)

\* a candidate was returned by an earlier search with a higher similarity
\* than by a later one, and some catalog index was returned by no search
C6_Witness ==
    /\ PipelineRan
    /\ Len(all_candidates) < Len(assessments)
    /\ \E p \in 1..Len(all_candidates) :
          LET idx == all_candidates[p].doc_index
          IN \E i, j \in 1..Len(Searches) :
                /\ i < j
                /\ idx \in HitsOf(i)
                /\ idx \in HitsOf(j)
                /\ SimIn(i, idx) > SimIn(j, idx)
                /\ all_candidates[p].context_similarity = SimIn(i, idx)

\* C10: for the first test query, feature extraction gives max_duration 30
\* and soft_skill_requested true, and every recommendation returned for it
\* has a duration of at most 30.
C10_TestQuery1 ==
    (PipelineRan /\ QueryText = TEST_QUERY_1) =>
        /\ features[1].max_duration = Some(30)
        /\ features[1].soft_skill_requested
        /\ \A m \in 1..Len(Recommendations) :
              /\ Recommendations[m].duration # None
              /\ Recommendations[m].duration[1] <= 30

\* recommend returned recommendations for the first test query, and had
\* retrieved a candidate longer than 30 minutes
C10_Witness ==
    /\ call.op = "recommend"
    /\ call.query.text = TEST_QUERY_1
    /\ Returned
    /\ Recommendations # << >>
    /\ \E p \in 1..Len(all_candidates) : TooLong(p)

\* the soft-skill flag of a scored candidate, times 100
FlagOf(c) == IF IsSoftSkillDoc(c) THEN 100 ELSE 0

\* the weighted sum of a scored candidate of the latest call, times 10^4:
\* tech_sim*0.60 + soft_skill*0.20 + context_sim*0.10 + level*0.10
SumOf(c) ==
    Cosine(Encode(cleaned_tech_query), assessment_embeddings[c.doc_index + 1]) * 60
        + FlagOf(c) * 20
        + c.context_similarity * 10
        + LevelScore(features[1].role_level, c.name) * 10

\* C11: the final score of every candidate that survived the filter is its
\* weighted sum times 1.10 when soft skills were requested and its
\* soft-skill flag is 1.0, and the weighted sum itself in every other case
\* (scores are times 10^6: a factor 110 is the boost, a factor 100 is none).
C11_BoostCorrectness ==
    PipelineRan =>
        \A m \in 1..Len(scored_candidates) :
            LET c == scored_candidates[m]
            IN c.final_score =
                  IF features[1].soft_skill_requested /\ FlagOf(c) = 100
                  THEN SumOf(c) * 110
                  ELSE SumOf(c) * 100

\* soft skills were requested, and a boosted soft-skill document stands
\* before a document without the flag whose weighted sum is the higher one
C11_Witness ==
    /\ Returned
    /\ features[1].soft_skill_requested
    /\ \E m, k \in 1..Len(scored_candidates) :
          /\ m < k
          /\ FlagOf(scored_candidates[m]) = 100
          /\ FlagOf(scored_candidates[k]) = 0
          /\ SumOf(scored_candidates[m]) < SumOf(scored_candidates[k])
          /\ scored_candidates[m].final_score > scored_candidates[k].final_score

\* C12: construction lets no recommender through whose embedding matrix has
\* another number of rows than the catalog has assessments, so in every
\* state in which a request can be served the two counts are equal.
C12_StartupParity ==
    Len(assessment_embeddings) = Len(assessments)

\* C14: no call changes the catalog or the embedding matrix: after every
\* call each catalog record is the record of the catalog file, with the
\* same fields and values and without context_similarity, doc_index or
\* final_score, and the matrix is the matrix of before.
C14_StoreFrame ==
    [][/\ assessments' = assessments
       /\ assessment_embeddings' = assessment_embeddings
       /\ \A i \in 1..Len(assessments') :
             /\ assessments'[i] = CatalogFile[i]
             /\ DOMAIN assessments'[i] \cap InternalFields = {}]_vars

\* after calls with other arguments, a call returned recommendations: its
\* searches set and raised the similarity of a candidate, its ranker scored
\* more candidates than it returned and deleted the request fields of the
\* returned ones
C14_Witness ==
    /\ Returned
    /\ first # None
    /\ first[1].others
    /\ Recommendations # << >>
    /\ Len(scored_candidates) > Len(Recommendations)
    /\ \A m \in 1..Len(Recommendations) :
          DOMAIN Recommendations[m] \cap InternalFields = {}
    /\ \E p \in 1..Len(all_candidates) :
          \E i, j \in 1..Len(Searches) :
              /\ i < j
              /\ all_candidates[p].doc_index \in HitsOf(i) \cap HitsOf(j)
              /\ SimIn(i, all_candidates[p].doc_index) < SimIn(j, all_candidates[p].doc_index)

\* C15: when the derived max_duration removes every retrieved candidate,
\* the call does not raise: it returns no recommendations, and a reasoning
\* that reports the number of candidates processed, that all of them were
\* filtered for duration and that none was re-ranked.
C15_NoCandidatesIsNoError ==
    (/\ Retrieved
     /\ features[1].max_duration # None
     /\ \A p \in 1..Len(all_candidates) : TooLong(p)) =>
        /\ outcome = "returned"
        /\ Recommendations = << >>
        /\ result.reasoning.kind = "validation_log"
        /\ result.reasoning.total = Len(all_candidates)
        /\ result.reasoning.removed = Len(all_candidates)
        /\ result.reasoning.passed = 0

\* the searches retrieved candidates, all of them longer than the limit of
\* the query, and the call returned
C15_Witness ==
    /\ call.op = "recommend"
    /\ Returned
    /\ features[1].max_duration # None
    /\ all_candidates # << >>
    /\ \A p \in 1..Len(all_candidates) : TooLong(p)
    /\ Recommendations = << >>

\* C16: a call that returns from the pipeline has made exactly
\* num_subqueries + 2 calls of the encoder, in this order: the sub-queries
\* in their order, the raw query, the cleaned tech-only text; a call that
\* is rejected as invalid has made none.
C16_EncodeCalls ==
    /\ Returned =>
          /\ Len(encode_calls) = Len(tech_queries) + 2
          /\ \A i \in 1..Len(tech_queries) : encode_calls[i] = tech_queries[i]
          /\ encode_calls[Len(tech_queries) + 1] = QueryText
          /\ encode_calls[Len(tech_queries) + 2] = cleaned_tech_query
    /\ outcome = "ValueError" => encode_calls = << >>

\* a call with three sub-queries returned; its raw query, its cleaned text
\* and its sub-queries are all different texts
C16_Witness ==
    /\ call.op = "recommend"
    /\ Returned
    /\ Len(tech_queries) = 3
    /\ Len(encode_calls) = 5
    /\ QueryText # cleaned_tech_query
    /\ \A i \in 1..Len(tech_queries) : tech_queries[i] \notin {QueryText, cleaned_tech_query}

\* the number of hits each sub-query search of the latest call is to take
BudgetPerQuery == Max2(10, (call.top_k \div Len(tech_queries)) + 2)

\* C20: each sub-query search takes the max(10, floor(top_k / n) + 2) best
\* rows and the full-query search the top_k best rows, so the candidates
\* are exactly the rows these searches take, and they are at most
\* n * k_per_query + top_k and at most as many as the catalog has.
C20_RetrievalBudget ==
    Retrieved =>
        /\ {all_candidates[p].doc_index : p \in 1..Len(all_candidates)} =
              UNION {Range(TopIndices(tech_queries[i], BudgetPerQuery)) :
                        i \in 1..Len(tech_queries)}
                  \cup Range(TopIndices(QueryText, call.top_k))
        /\ \A i \in 1..Len(tech_queries) :
              Len(TopIndices(tech_queries[i], BudgetPerQuery))
                  = Min2(BudgetPerQuery, Len(assessment_embeddings))
        /\ Len(TopIndices(QueryText, call.top_k)) = Min2(call.top_k, Len(assessment_embeddings))
        /\ Len(all_candidates) <= Len(tech_queries) * BudgetPerQuery + call.top_k
        /\ Len(all_candidates) <= Len(assessments)

\* with top_k = 1 each sub-query search took ten rows; together the
\* searches brought more candidates than one search takes, fewer than the
\* bound allows and fewer than the catalog has
C20_Witness ==
    /\ Returned
    /\ call.top_k = 1
    /\ BudgetPerQuery = 10
    /\ Len(tech_queries) >= 2
    /\ Len(all_candidates) > BudgetPerQuery
    /\ Len(all_candidates) < Len(tech_queries) * BudgetPerQuery + call.top_k
    /\ Len(all_candidates) < Len(assessments)

\* the rows search i of the latest call took, best first
TakenBy(i) == TopIndices(Searches[i].text, Searches[i].k)

\* row idx stands before row other in a descending order of the similarities
\* sims whose ties are broken by the catalog index
BeforeByIndex(sims, idx, other) ==
    \/ sims[idx + 1] > sims[other + 1]
    \/ (sims[idx + 1] = sims[other + 1] /\ idx < other)

\* C21: every search of a call takes the k rows of highest similarity, in
\* descending similarity; among rows of equal similarity the row of the
\* lower catalog index stands first, so the catalog index alone decides
\* which of the tied rows are among the k.
C21_TopKTiesByIndex ==
    Retrieved =>
        \A i \in 1..Len(Searches) :
            LET sims == Similarities(Searches[i].text)
                taken == TakenBy(i)
            IN /\ Len(taken) = Min2(Searches[i].k, Len(sims))
               /\ \A a, b \in 1..Len(taken) :
                     a < b => BeforeByIndex(sims, taken[a], taken[b])
               /\ \A idx \in 0..(Len(sims) - 1) :
                     idx \notin Range(taken) =>
                        \A a \in 1..Len(taken) : BeforeByIndex(sims, taken[a], idx)

\* the candidates of the latest call that pass the hard filter
Survivors ==
    {p \in 1..Len(all_candidates) : features[1].max_duration = None \/ ~TooLong(p)}

\* the candidate that recommendation number m of the latest call was made from
CandidateOf(m) ==
    CHOOSE p \in 1..Len(all_candidates) : all_candidates[p].url = Recommendations[m].url

\* the final scores of the candidates of the latest call, by their position
Scores == Listed([p \in 1..Len(all_candidates) |-> ScoreOf(p)])

\* C22: the returned recommendations stand in non-increasing order of final
\* score; they are made from candidates that passed the hard filter, no
\* such candidate left out scores strictly higher than a returned one, and
\* they are exactly min(final_k, number of candidates that passed) many.
C22_RankingOrderAndTruncation ==
    Returned =>
        LET score == Scores
        IN /\ Len(Recommendations) = Min2(call.final_k, Cardinality(Survivors))
           /\ \A m \in 1..(Len(Recommendations) - 1) :
                 score[CandidateOf(m)] >= score[CandidateOf(m + 1)]
           /\ ReturnedCandidates \subseteq Survivors
           /\ \A p \in Survivors \ ReturnedCandidates :
                 \A q \in ReturnedCandidates : score[p] <= score[q]

\* more candidates passed the filter than final_k; the sort moved a later
\* candidate before an earlier one of lower score, and a candidate that
\* passed was left out with a score below every returned one
C22_Witness ==
    /\ Returned
    /\ Cardinality(Survivors) > call.final_k
    /\ Len(Recommendations) = call.final_k
    /\ \E m \in 1..(Len(Recommendations) - 1) :
          /\ CandidateOf(m) > CandidateOf(m + 1)
          /\ Scores[CandidateOf(m)] > Scores[CandidateOf(m + 1)]
    /\ \E p \in Survivors \ ReturnedCandidates :
          \A q \in ReturnedCandidates : Scores[p] < Scores[q]

\* the lower-cased name of a scored candidate holds the word
NameHas(c, word) == Contains(Lower(c.name), word)

\* the level score that went into the final score of a scored candidate of
\* the latest call, times 100: the final score without its boost, less the
\* three other weighted signals, over the weight of the level
LevelIn(c) ==
    LET boost == IF features[1].soft_skill_requested /\ FlagOf(c) = 100 THEN 110 ELSE 100
        tech == Cosine(Encode(cleaned_tech_query), assessment_embeddings[c.doc_index + 1])
    IN ((c.final_score \div boost) - tech * 60 - FlagOf(c) * 20 - c.context_similarity * 10)
           \div 10

\* C23: the level score of every scored candidate is 0.0, 0.5 or 1.0.  It
\* is 0.5 when role_level is 'mid'.  For role_level 'entry' it is 1.0 when
\* the name holds 'entry', else 0.0 when the name holds 'advanced' or
\* 'senior', else 0.5; for role_level 'senior' it is 0.0 when the name holds
\* 'entry', else 1.0 when the name holds 'advanced' or 'senior', else 0.5.
C23_LevelScore ==
    PipelineRan =>
        \A m \in 1..Len(scored_candidates) :
            LET c == scored_candidates[m]
                level == LevelIn(c)
                role_level == features[1].role_level
                entry == NameHas(c, WordEntry)
                upper == NameHas(c, WordAdvanced) \/ NameHas(c, WordSenior)
            IN /\ level \in {0, 50, 100}
               /\ role_level = "mid" => level = 50
               /\ role_level = "entry" =>
                     level = IF entry THEN 100 ELSE IF upper THEN 0 ELSE 50
               /\ role_level = "senior" =>
                     level = IF entry THEN 0 ELSE IF upper THEN 100 ELSE 50

\* for a senior role the ranker scored a candidate named for the entry
\* level with 0.0, one named advanced or senior with 1.0 and one named
\* neither with 0.5
C23_Witness ==
    /\ Returned
    /\ features[1].role_level = "senior"
    /\ \E m, k, n \in 1..Len(scored_candidates) :
          /\ NameHas(scored_candidates[m], WordEntry)
          /\ LevelIn(scored_candidates[m]) = 0
          /\ NameHas(scored_candidates[k], WordAdvanced)
          /\ LevelIn(scored_candidates[k]) = 100
          /\ ~NameHas(scored_candidates[n], WordEntry)
          /\ ~NameHas(scored_candidates[n], WordAdvanced)
          /\ ~NameHas(scored_candidates[n], WordSenior)
          /\ LevelIn(scored_candidates[n]) = 50

\* C24: every returned recommendation is the catalog record of an
\* assessment retrieved for this call, with the same fields and the same
\* values, and without final_score, context_similarity and doc_index; no
\* assessment is recommended twice.
C24_AssessmentFieldsOnly ==
    Returned =>
        /\ \A m \in 1..Len(Recommendations) :
              /\ \E p \in 1..Len(all_candidates) :
                    Recommendations[m] = assessments[all_candidates[p].doc_index + 1]
              /\ DOMAIN Recommendations[m] \cap InternalFields = {}
        /\ \A m, n \in 1..Len(Recommendations) :
              Recommendations[m].url = Recommendations[n].url => m = n

\* a call returned several recommendations, one of them for an assessment
\* that two of its searches had found
C24_Witness ==
    /\ Returned
    /\ Len(Recommendations) >= 2
    /\ \E m \in 1..Len(Recommendations) :
          \E i, j \in 1..Len(Searches) :
              /\ i < j
              /\ all_candidates[CandidateOf(m)].doc_index \in HitsOf(i) \cap HitsOf(j)
    /\ \A m \in 1..Len(Recommendations) :
          DOMAIN Recommendations[m] = DOMAIN assessments[1]

\* the similarity of the tech-only query to the catalog embedding of
\* candidate number p of the latest call
OwnTechSim(p) ==
    Cosine(Encode(cleaned_tech_query), assessment_embeddings[all_candidates[p].doc_index + 1])

\* the tech_sim that went into the final score of a scored candidate of the
\* latest call: the final score without its boost, less the three other
\* weighted signals, over the weight of tech_sim
TechIn(c) ==
    LET boost == IF features[1].soft_skill_requested /\ FlagOf(c) = 100 THEN 110 ELSE 100
    IN ((c.final_score \div boost) - FlagOf(c) * 20 - c.context_similarity * 10
            - LevelScore(features[1].role_level, c.name) * 10) \div 60

\* the place candidate number p has among the candidates the filter kept
PlaceAmongKept(p) == Cardinality({q \in Survivors : q <= p})

\* C27: the tech_sim in the final score of every scored candidate is the
\* similarity of the tech-only query to the catalog embedding of that same
\* candidate, whichever candidates before it the duration filter removed.
C27_ScoreAlignment ==
    PipelineRan =>
        \A m \in 1..Len(scored_candidates) :
            \E p \in 1..Len(all_candidates) :
                /\ all_candidates[p].doc_index = scored_candidates[m].doc_index
                /\ TechIn(scored_candidates[m]) = OwnTechSim(p)

\* the filter removed a candidate and kept a later one, whose own similarity
\* is another than that of the candidate at its place among the kept ones
C27_Witness ==
    /\ Returned
    /\ features[1].max_duration # None
    /\ \E p \in Survivors :
          /\ PlaceAmongKept(p) < p
          /\ OwnTechSim(PlaceAmongKept(p)) # OwnTechSim(p)
          /\ \E m \in 1..Len(scored_candidates) :
                /\ scored_candidates[m].doc_index = all_candidates[p].doc_index
                /\ TechIn(scored_candidates[m]) = OwnTechSim(p)

\* C28: when a max_duration is derived and a retrieved candidate has an
\* unknown duration, the ranking completes without raising, and the
\* candidates counted as removed by the duration filter are those whose
\* known duration exceeds the limit.
C28_UnknownDurationPasses ==
    (/\ Retrieved
     /\ features[1].max_duration # None
     /\ \E p \in 1..Len(all_candidates) : all_candidates[p].duration = None) =>
        /\ outcome = "returned"
        /\ result.reasoning.removed = Cardinality({p \in 1..Len(all_candidates) : TooLong(p)})

\* the first search of the latest call that took catalog index idx, and the
\* place of idx among the rows that search took
FirstSearch(idx) == Min({i \in 1..Len(Searches) : idx \in HitsOf(i)})

PlaceIn(i, idx) == CHOOSE k \in 1..Len(TakenBy(i)) : TakenBy(i)[k] = idx

\* candidate number p was inserted before candidate number q: by an earlier
\* search, or by the same search at a place of higher similarity
InsertedBefore(p, q) ==
    LET i == FirstSearch(all_candidates[p].doc_index)
        j == FirstSearch(all_candidates[q].doc_index)
    IN \/ i < j
       \/ /\ i = j
          /\ PlaceIn(i, all_candidates[p].doc_index) < PlaceIn(j, all_candidates[q].doc_index)

\* C29: recommendations of equal final score stand in the order in which
\* their candidates were first inserted into the candidate set (the
\* sub-query searches in their order, each by descending similarity, then
\* the full-query search), and of a returned and a left-out candidate of
\* equal final score the returned one was inserted first.
C29_TiesKeepRetrievalOrder ==
    Returned =>
        LET score == Scores
        IN /\ \A m, n \in 1..Len(Recommendations) :
                 (m < n /\ score[CandidateOf(m)] = score[CandidateOf(n)]) =>
                    InsertedBefore(CandidateOf(m), CandidateOf(n))
           /\ \A p \in Survivors \ ReturnedCandidates :
                 \A q \in ReturnedCandidates :
                    score[p] = score[q] => InsertedBefore(q, p)

\* two recommendations of equal final score were returned, and a candidate
\* of the same score as the last recommendation was left out at the cut
C29_Witness ==
    /\ Returned
    /\ Len(tech_queries) >= 2
    /\ \E m \in 1..(Len(Recommendations) - 1) :
          Scores[CandidateOf(m)] = Scores[CandidateOf(m + 1)]
    /\ \E p \in Survivors \ ReturnedCandidates :
          Scores[p] = Scores[CandidateOf(Len(Recommendations))]

(***************************************************************************)
(* Properties of the responses of /api/recommend.                          *)
(***************************************************************************)
\* the latest request was answered with recommendations, not with an error
Answer == http.status = 200

\* C26: for every request with a non-empty query that is answered without
\* an error, whatever the client sent as final_k, the final_k handed to the
\* recommender is an integer of 1..10 and the top_k handed to it is
\* max(20, 4 * final_k), which is greater than final_k; the response holds
\* at most final_k assessments and, the catalog not being empty, at least one.
C26_ResponseSize ==
    Answer =>
        /\ http.final_k \in 1..10
        /\ call.final_k = http.final_k
        /\ call.top_k = http.top_k
        /\ http.top_k = Max2(20, 4 * http.final_k)
        /\ http.top_k > http.final_k
        /\ Len(http.recommended_assessments) <= http.final_k
        /\ assessments # << >> => Len(http.recommended_assessments) >= 1

\* the client sent final_k = 99; the recommender was called with 10 and 40,
\* and ten assessments were sent back
C26_Witness ==
    /\ Answer
    /\ http.request.final_k = JsonInt(99)
    /\ call.final_k = 10
    /\ call.top_k = 40
    /\ Len(http.recommended_assessments) = 10

\* C30: when a max_duration is derived from the query of a request, every
\* assessment of the response has a known duration of at most max_duration,
\* also when the recommender returned nothing and the response holds the
\* best-effort assessment of the handler.
C30_HardFilterAtApi ==
    (Answer /\ PipelineRan /\ features[1].max_duration # None) =>
        \A m \in 1..Len(http.recommended_assessments) :
            /\ http.recommended_assessments[m].duration # None
            /\ http.recommended_assessments[m].duration[1] <= features[1].max_duration[1]

(***************************************************************************)
(* The feature extractor and the query planner called on their own, as     *)
(* recommend calls them one after the other, or the planner alone.  The    *)
(* texts are the examples above and every text of at most MaxTokens        *)
(* tokens.                                                                 *)
(***************************************************************************)
MaxTokens == 5

Tokens == { <<"x">>, <<" ">>, <<",">>, <<"a","n","d">>, <<"A","N","D">> }

RECURSIVE TokenTexts(_)
TokenTexts(n) ==
    IF n = 0 THEN { << >> }
    ELSE LET shorter == TokenTexts(n - 1)
         IN shorter \cup {t \o k : t \in shorter, k \in Tokens}

ExampleTexts ==
    {TEST_QUERY_1, TEST_QUERY_2, PlannerExample, QueryTwoSkills, QueryShortLimit}

NoOutput == [features |-> None, cleaned_tech_query |-> << >>, queries |-> << >>]

TextInit ==
    /\ Loaded(SubSeq(CatalogFile, 1, NumAssessments),
              Some(StoredMatrix(NumMatrices, NumAssessments)), "lower_index_first")
    /\ Idle
    /\ unit_pc = "start"
    /\ unit_in \in ExampleTexts \cup TokenTexts(MaxTokens)
    /\ unit_out = NoOutput

\* features, cleaned_tech_query = self._extract_features_locally(query)
Extract ==
    /\ unit_pc = "start"
    /\ unit_pc' = "extracted"
    /\ LET extracted == _extract_features_locally(unit_in)
       IN unit_out' = [features |-> Some(extracted.features),
                       cleaned_tech_query |-> extracted.cleaned_tech_query,
                       queries |-> << >>]
    /\ UNCHANGED <<store_vars, call_vars, unit_in, thread_vars, api_vars>>

\* tech_queries = self._parse_tech_queries(cleaned_tech_query)
Plan ==
    /\ unit_pc = "extracted"
    /\ unit_pc' = "planned"
    /\ unit_out' = [unit_out EXCEPT !.queries = _parse_tech_queries(unit_out.cleaned_tech_query)]
    /\ UNCHANGED <<store_vars, call_vars, unit_in, thread_vars, api_vars>>

\* self._parse_tech_queries(text), of a text handed to it directly
PlanAlone ==
    /\ unit_pc = "start"
    /\ unit_pc' = "planned_alone"
    /\ unit_out' = [unit_out EXCEPT !.queries = _parse_tech_queries(unit_in)]
    /\ UNCHANGED <<store_vars, call_vars, unit_in, thread_vars, api_vars>>

TextNext == Extract \/ Plan \/ PlanAlone

TextSpec == TextInit /\ [][TextNext]_vars

(***************************************************************************)
(* Properties of the query planner and the feature extractor.              *)
(***************************************************************************)
\* the planner has run, and the text it was given
PlannerRan == unit_pc \in {"planned", "planned_alone"}

PlannerInput == IF unit_pc = "planned" THEN unit_out.cleaned_tech_query ELSE unit_in

\* every piece of the split of text is empty once trimmed
AllPiecesEmpty(text) ==
    \A i \in 1..Len(ReSplit(text)) : Strip(ReSplit(text)[i]) = << >>

\* C7: the planner returns at least one sub-query for every text, and the
\* one-element list of the text unchanged when every split piece is empty;
\* so the division by the number of sub-queries in recommend is defined.
C7_PlannerNeverEmpty ==
    PlannerRan =>
        /\ Len(unit_out.queries) >= 1
        /\ AllPiecesEmpty(PlannerInput) => unit_out.queries = << PlannerInput >>
        /\ k_per_query(1, Len(unit_out.queries)) >= MinPerQuery

\* the planner was given separators only, and returned them as one sub-query
C7_Witness ==
    /\ PlannerRan
    /\ PlannerInput # << >>
    /\ ~Blank(PlannerInput)
    /\ AllPiecesEmpty(PlannerInput)
    /\ unit_out.queries = << PlannerInput >>

\* the text holds the word "and", in any case, between two word boundaries
HasAndWord(text) ==
    \E i \in 1..Len(text) : WordHits(Lower(text), i, << AndWord >>) # {}

\* the text holds "and", in any case, with whitespace before and after it
HasSpacedAnd(text) ==
    \E i \in 2..(Len(text) - 3) :
        /\ text[i - 1] \in SpaceSet
        /\ MatchAt(Lower(text), i, AndWord)
        /\ text[i + 3] \in SpaceSet

HasComma(text) == \E i \in 1..Len(text) : text[i] = ","

Python == <<"P","y","t","h","o","n">>

Sql == <<"S","Q","L">>

JavaScript == <<"J","a","v","a","S","c","r","i","p","t">>

C9_TestQuery2Decomposition ==
    (unit_pc = "planned" /\ unit_in = TEST_QUERY_2) =>
        {Python, Sql, JavaScript} \subseteq Range(unit_out.queries)

(***************************************************************************)
(* The feature extractor called on its own, on the test queries and on     *)
(* every text of at most MaxPhrases phrases: level keywords of both        *)
(* families, duration phrases, a space and a line break.                   *)
(***************************************************************************)
MaxPhrases == 4

Phrases ==
    { <<"s","e","n","i","o","r">>,
      <<"i","n","t","e","r","n">>,
      <<"m","a","x">>,
      <<"9","m","i","n">>,
      <<"0"," ","m","i","n","s"," ","m","a","x">>,
      <<" ">>,
      <<"\n">> }

RECURSIVE PhraseTexts(_)
PhraseTexts(n) ==
    IF n = 0 THEN { << >> }
    ELSE LET shorter == PhraseTexts(n - 1)
         IN shorter \cup {t \o k : t \in shorter, k \in Phrases}

FeatureInit ==
    /\ Loaded(SubSeq(CatalogFile, 1, NumAssessments),
              Some(StoredMatrix(NumMatrices, NumAssessments)), "lower_index_first")
    /\ Idle
    /\ unit_pc = "start"
    /\ unit_in \in ExampleTexts \cup PhraseTexts(MaxPhrases)
    /\ unit_out = NoOutput

FeatureNext == Extract

FeatureSpec == FeatureInit /\ [][FeatureNext]_vars

\* the extractor has run on unit_in
ExtractorRan == unit_pc = "extracted"

\* the starts of the matches of the two duration patterns in a text
StartsA(low) == {i \in 1..Len(low) : PatternAAt(low, i)}

StartsB(low) == {i \in 1..Len(low) : PatternBAt(low, i)}

\* C17: role_level is entry whenever the lower-cased query holds 'entry',
\* 'junior', 'graduate' or 'intern', also next to a senior keyword; senior
\* when it holds none of those but 'senior', 'lead', 'expert' or
\* 'principal'; mid when it holds no level keyword.
C17_RoleLevelPrecedence ==
    ExtractorRan =>
        LET low == Lower(unit_in)
            entry == \E k \in 1..Len(EntryKeywords) : Contains(low, EntryKeywords[k])
            senior == \E k \in 1..Len(SeniorKeywords) : Contains(low, SeniorKeywords[k])
        IN /\ entry => unit_out.features[1].role_level = "entry"
           /\ (~entry /\ senior) => unit_out.features[1].role_level = "senior"
           /\ (~entry /\ ~senior) => unit_out.features[1].role_level = "mid"

\* a query that says senior first and intern later has come out as entry
C17_Witness ==
    /\ ExtractorRan
    /\ \E i, j \in 1..Len(unit_in) :
          /\ i < j
          /\ MatchAt(Lower(unit_in), i, WordSenior)
          /\ MatchAt(Lower(unit_in), j, <<"i","n","t","e","r","n">>)
    /\ unit_out.features[1].role_level = "entry"

\* C18: when the pattern '<N> minute(s) ... limit word' matches, max_duration
\* is the number of its first match, also when a match of the pattern
\* 'limit word ... <N> minute(s)' starts earlier; when only the second
\* pattern matches, it is the number of that pattern's first match; when
\* neither matches, it is None.
C18_DurationPrecedence ==
    ExtractorRan =>
        LET low == Lower(unit_in)
        IN unit_out.features[1].max_duration =
              IF StartsA(low) # {} THEN Some(NumberAt(low, Min(StartsA(low))))
              ELSE IF StartsB(low) # {} THEN DurationLessThanFirst(low)
              ELSE None

\* both patterns match, the second one earlier in the text and with another
\* number, and max_duration is the number of the first pattern
C18_Witness ==
    /\ ExtractorRan
    /\ LET low == Lower(unit_in)
       IN /\ StartsA(low) # {}
          /\ StartsB(low) # {}
          /\ Min(StartsB(low)) < Min(StartsA(low))
          /\ DurationLessThanFirst(low) # Some(NumberAt(low, Min(StartsA(low))))
          /\ unit_out.features[1].max_duration = Some(NumberAt(low, Min(StartsA(low))))

\* C19: the max_duration of every query is None or an integer of at least 1.
C19_PositiveDuration ==
    ExtractorRan =>
        \/ unit_out.features[1].max_duration = None
        \/ unit_out.features[1].max_duration[1] >= 1

\* the soft-skill, level and duration keywords and the stop words
RemovedWords == SoftKeywords \o LevelKeywords \o DurationKeywords \o NonSkillWords

\* the positions of text that lie in a whole-word occurrence, in any case,
\* of one of the removed words
InRemovedWord(text) ==
    LET hit == HitLengths(Lower(text), RemovedWords)
    IN {j \in 1..Len(text) : \E i \in 1..j : hit[i] # 0 /\ j < i + hit[i]}

\* nothing but whitespace is left of text once the words are removed
NothingLeft(text) ==
    LET removed == InRemovedWord(text)
    IN \A j \in 1..Len(text) : text[j] \in SpaceSet \/ j \in removed

\* text holds none of the removed words as a whole word, neither starts nor
\* ends with whitespace and has no two whitespace characters in a row
Tidy(text) ==
    /\ InRemovedWord(text) = {}
    /\ text # << >> => (text[1] \notin SpaceSet /\ text[Len(text)] \notin SpaceSet)
    /\ \A j \in 1..(Len(text) - 1) : ~(text[j] \in SpaceSet /\ text[j + 1] \in SpaceSet)

\* C25: for every non-empty query the cleaned tech-only string is not
\* empty; it is the raw query itself exactly when the removal leaves
\* nothing, and otherwise a string without any whole-word occurrence of a
\* soft-skill, level or duration keyword or a stop word, without leading or
\* trailing whitespace and without two whitespace characters in a row.
C25_CleanedTechQuery ==
    (ExtractorRan /\ unit_in # << >>) =>
        /\ unit_out.cleaned_tech_query # << >>
        /\ IF NothingLeft(unit_in)
           THEN unit_out.cleaned_tech_query = unit_in
           ELSE Tidy(unit_out.cleaned_tech_query)

\* the query starts with whitespace and holds keywords between other text;
\* the cleaned string is what is left of it, shorter and tidy
C25_Witness ==
    /\ ExtractorRan
    /\ unit_in # << >>
    /\ unit_in[1] \in SpaceSet
    /\ InRemovedWord(unit_in) # {}
    /\ ~NothingLeft(unit_in)
    /\ \E j \in 1..(Len(unit_in) - 1) : unit_in[j] \in SpaceSet /\ unit_in[j + 1] \in SpaceSet
    /\ Len(unit_out.cleaned_tech_query) < Len(unit_in)
    /\ Tidy(unit_out.cleaned_tech_query)

(***************************************************************************)
(* Calls of recommend that run at the same time.  The server handles each  *)
(* request in a thread of its own, and all threads call the one            *)
(* recommender object.  A call goes through its steps (validation, feature *)
(* extraction, planning, one search after the other, ranking) and the      *)
(* steps of the calls interleave in any order.                             *)
(***************************************************************************)
\* the calls the threads make
ThreadInputs ==
    {[query |-> PyStr(TEST_QUERY_1), top_k |-> 40, final_k |-> 5],
     [query |-> PyStr(QueryTwoSkills), top_k |-> 1, final_k |-> 1],
     [query |-> PyNone, top_k |-> 40, final_k |-> 5]}

\* one dictionary that all calls use (as an attribute of the object would be)
SharedDict(t) == 1

\* all_candidates is a local variable: each call has a dictionary of its own
OwnDict(t) == t

ThreadInit ==
    /\ \E n \in (NumAssessments - 1)..NumAssessments :
          Loaded(SubSeq(CatalogFile, 1, n), Some(StoredMatrix(NumMatrices, n)),
                 "lower_index_first")
    /\ Idle
    /\ unit_pc = "off"
    /\ unit_in = <<>>
    /\ unit_out = NoOutput

\* thread t enters recommend: the validation of the query
Enter(t, c) ==
    /\ frames[t].pc = "idle"
    /\ frames' = [frames EXCEPT ![t] =
          IF InvalidQuery(c.query)
          THEN [IdleFrame EXCEPT !.pc = "done", !.outcome = "ValueError",
                                 !.call = [NoCall EXCEPT !.op = "recommend", !.query = c.query,
                                                         !.top_k = c.top_k, !.final_k = c.final_k]]
          ELSE [IdleFrame EXCEPT !.pc = "extract",
                                 !.call = [NoCall EXCEPT !.op = "recommend", !.query = c.query,
                                                         !.top_k = c.top_k, !.final_k = c.final_k]]]
    /\ UNCHANGED <<store_vars, call_vars, unit_vars, dicts, api_vars>>

\* features, cleaned_tech_query = self._extract_features_locally(query)
ThreadExtracts(t) ==
    /\ frames[t].pc = "extract"
    /\ LET extracted == Extracted(frames[t].call.query.text)
       IN frames' = [frames EXCEPT ![t].pc = "plan",
                                   ![t].features = Some(extracted.features),
                                   ![t].cleaned_tech_query = extracted.cleaned_tech_query]
    /\ UNCHANGED <<store_vars, call_vars, unit_vars, dicts, api_vars>>

\* tech_queries = self._parse_tech_queries(...); all_candidates = {}
ThreadPlans(t) ==
    /\ frames[t].pc = "plan"
    /\ frames' = [frames EXCEPT ![t].pc = "search",
                                ![t].tech_queries = Planned(frames[t].cleaned_tech_query)]
    /\ dicts' = [dicts EXCEPT ![OwnDict(t)] = FreshCandidates(@)]
    /\ UNCHANGED <<store_vars, call_vars, unit_vars, api_vars>>

\* the next search of thread t, and the merge of its hits
ThreadSearches(t) ==
    /\ frames[t].pc = "search"
    /\ LET passes == Passes(frames[t].call.query.text, frames[t].tech_queries,
                            frames[t].call.top_k)
           merged == MergePass(dicts[OwnDict(t)], passes[frames[t].searched + 1])
       IN /\ dicts' = [dicts EXCEPT ![OwnDict(t)] = merged.cands]
          /\ frames' = [frames EXCEPT
                ![t].searched = @ + 1,
                ![t].interleaved =
                    @ \/ \E u \in Threads \ {t} :
                            frames[u].pc = "search" /\ frames[u].searched >= 1,
                ![t].pc = IF merged.raised THEN "done"
                          ELSE IF frames[t].searched + 1 = Len(passes) THEN "rank"
                          ELSE "search",
                ![t].outcome = IF merged.raised THEN "IndexError" ELSE @,
                ![t].candidates = IF merged.raised THEN merged.cands ELSE @]
    /\ UNCHANGED <<store_vars, call_vars, unit_vars, api_vars>>

\* candidates = list(all_candidates.values()); the ranker; return
ThreadRanks(t) ==
    /\ frames[t].pc = "rank"
    /\ LET candidates == dicts[OwnDict(t)]
           ranked == _validate_and_rank_locally(frames[t].features[1], candidates,
                                                frames[t].cleaned_tech_query,
                                                frames[t].call.final_k)
       IN /\ frames' = [frames EXCEPT ![t].pc = "done",
                                      ![t].outcome = ranked.outcome,
                                      ![t].result = ranked.result,
                                      ![t].candidates = candidates,
                                      ![t].scored_candidates = ranked.scored_candidates]
          /\ assessments' = StoreAfter(assessments, RetrievalWrites(candidates) \o ranked.writes)
    /\ UNCHANGED <<assessment_embeddings, tie_order, call_vars, unit_vars, dicts, api_vars>>

ThreadNext ==
    \E t \in Threads :
        \/ \E c \in ThreadInputs : Enter(t, c)
        \/ ThreadExtracts(t)
        \/ ThreadPlans(t)
        \/ ThreadSearches(t)
        \/ ThreadRanks(t)

ThreadSpec == ThreadInit /\ [][ThreadNext]_vars

\* what the call of thread t gives when it runs alone
Alone(t) ==
    recommend(<< >>, frames[t].call.query, frames[t].call.top_k, frames[t].call.final_k)

\* C13: whatever the interleaving of the calls, a call that has ended has
\* the outcome, the result, the features, the candidates and the scores
\* that the same call has when it runs alone.
C13_RequestIsolation ==
    \A t \in Threads :
        frames[t].pc = "done" =>
            LET alone == Alone(t)
            IN /\ frames[t].outcome = alone.outcome
               /\ frames[t].result = alone.result
               /\ frames[t].features = alone.features
               /\ frames[t].candidates = alone.all_candidates
               /\ frames[t].scored_candidates = alone.scored_candidates

\* two calls with different queries have both returned recommendations, and
\* each made a search while the other was between its searches
C13_Witness ==
    \E t, u \in Threads :
        /\ \A v \in {t, u} :
              /\ frames[v].pc = "done"
              /\ frames[v].outcome = "returned"
              /\ frames[v].result.recommendations # << >>
              /\ frames[v].interleaved
        /\ frames[t].call.query # frames[u].call.query
        /\ frames[t].result # frames[u].result

====
